---- MODULE Spec2Model ----
(***************************************************************************)
(* Model of services/viral_integration_service.py (class ViralImageFinder). *)
(*                                                                         *)
(* Part 1 (Spec, FairSpec): the credential rotation registry: api_keys,    *)
(* current_api_index, failed_apis, _get_next_api_key, _mark_api_failed     *)
(* with its clear_failure threads, and the components that drive it        *)
(* (_search_serper_advanced, _search_rapidapi_instagram,                   *)
(* _analyze_with_apify_rotation, and the searches that only take a key).   *)
(* The module-level instance viral_integration_service is shared by every  *)
(* run, and find_viral_images resolves up to three results concurrently,   *)
(* so several requests are in flight on one registry; a request gives up   *)
(* control at its HTTP call.                                               *)
(*                                                                         *)
(* Part 2 (SpecSearch): the provider sweep of search_images, each provider *)
(* call seen by its outcome (a list of results, or an exception).          *)
(*                                                                         *)
(* Part 3 (SpecDedup): the tail of search_images: the direct extraction    *)
(* from the collected post URLs and the removal of duplicates with         *)
(* _is_valid_social_url, over a small corpus of page URLs.                 *)
(*                                                                         *)
(* Part 4 (SpecResolve): analyze_post_engagement: the strategies of the    *)
(* platform's branch in order, then _estimate_engagement_by_platform.      *)
(*                                                                         *)
(* Part 5 (SpecScore): _calculate_engagement_score, in hundredths.         *)
(*                                                                         *)
(* Part 6 (SpecPipeline): find_viral_images: the process_result tasks      *)
(* under the semaphore, the sort and save_results.                         *)
(*                                                                         *)
(* Part 7 (SpecSync): find_viral_images_sync and its timeout.              *)
(*                                                                         *)
(* Part 8 (SpecRound): the provider calls of search_images, call and       *)
(* return apart.                                                           *)
(*                                                                         *)
(* Part 9 (SpecParse): _extract_number_from_text over lists of characters. *)
(***************************************************************************)
EXTENDS Integers, Sequences, FiniteSets, Bags, TLC

VARIABLES
    api_keys,           \* service -> number of keys loaded (slot i holds key i)
    current_api_index,  \* service -> rotation position
    failed_apis,        \* set of <<service, index>>: the f"{service}_{index}" identifiers
    timers,             \* bag of running clear_failure threads [svc, idx, wake]
    now,                \* the clock, in seconds
    task,               \* task -> the request it is running and where it stands
    lastRet,            \* history: the _get_next_api_key call of the step just taken
    lastFail,           \* history: the failure handled by the step just taken
    lastClear,          \* history: the identifier a clear_failure thread has just removed
    lastSkip,           \* history: the service whose component has just returned for want of keys
    config,             \* which of serper_api_key, google keys, rapidapi_key are set
    spc,                \* search_images: the provider call it stands at
    qi,                 \* search_images: the query of queries[:8] it stands at
    results,            \* search_images: len(results) of the query at hand
    all_results,        \* search_images: len(all_results)
    returned,           \* history: number of results the successful calls returned
    called,             \* history: provider -> number of calls made
    raised,             \* history: whether some provider call raised
    provided,           \* search_images: the results the provider calls returned, in order
    aggregated,         \* search_images: the list all_results from line 324 on
    unique_results,     \* search_images: the list it returns
    dpc,                \* search_images: where the tail of the function stands
    resolve_url,        \* analyze_post_engagement: the argument post_url
    resolve_platform,   \* analyze_post_engagement: the argument platform
    playwright_enabled, \* self.playwright_enabled, set by the constructor
    rpc,                \* analyze_post_engagement: trying, done or raised
    ri,                 \* analyze_post_engagement: the strategy of the chain it stands at
    attempts,           \* history: the strategy calls made, each with its outcome
    record,             \* analyze_post_engagement: the record it returns
    rstatus,            \* history: RESOLVED by a strategy, or ESTIMATED
    sargs,              \* _calculate_engagement_score: the arguments of the calls
    sresult,            \* _calculate_engagement_score: the value of the last call, in hundredths
    sfirst,             \* history: the value of the first call and the time it was made
    scalls,             \* history: the number of calls made
    max_images,         \* find_viral_images: config['max_images']
    search_results,     \* find_viral_images: what search_images returned
    fpc,                \* find_viral_images: where it stands
    ptask,              \* find_viral_images: the process_result tasks
    viral_images,       \* find_viral_images: the list it returns
    output_file,        \* find_viral_images: the path it returns
    reports,            \* the files save_results has written
    wmode,              \* find_viral_images_sync: worker thread, or asyncio.run
    wpc,                \* find_viral_images_sync: where it stands
    wexpired,           \* history: future.result has timed out
    at_expiry,          \* history: the items the tasks had produced at the timeout
    wresult,            \* find_viral_images_sync: the list it returns
    sweep_config,       \* search_images: which provider keys are set
    sweep_q,            \* search_images: the query of the loop
    sweep_at,           \* search_images: the provider it is at
    sweep_pc,           \* search_images: ready to go on, or awaiting a provider
    in_flight,          \* the provider calls made and not yet returned
    ptext,              \* _extract_number_from_text: the argument, a list of characters
    presult             \* _extract_number_from_text: the value returned

regVars == <<api_keys, current_api_index, failed_apis, timers, now, task,
             lastRet, lastFail, lastClear, lastSkip>>

searchVars == <<config, spc, qi, results, all_results, returned, called, raised>>

dedupVars == <<provided, aggregated, unique_results, dpc>>

\* the variables of the parts that follow the provider sweep
resolveVars == <<resolve_url, resolve_platform, playwright_enabled, rpc, ri, attempts,
                 record, rstatus>>

scoreVars == <<sargs, sresult, sfirst, scalls>>

pipeVars == <<max_images, search_results, fpc, ptask, viral_images, output_file, reports>>

syncVars == <<wmode, wpc, wexpired, at_expiry, wresult>>

roundVars == <<sweep_config, sweep_q, sweep_at, sweep_pc, in_flight>>

parseVars == <<ptext, presult>>

\* the variables of the parts that follow the score
restVars == <<pipeVars, syncVars, roundVars, parseVars>>

laterVars == <<dedupVars, resolveVars, scoreVars, restVars>>

vars == <<api_keys, current_api_index, failed_apis, timers, now, task,
          lastRet, lastFail, lastClear, lastSkip,
          config, spc, qi, results, all_results, returned, called, raised,
          provided, aggregated, unique_results, dpc,
          resolve_url, resolve_platform, playwright_enabled, rpc, ri, attempts, record,
          rstatus,
          sargs, sresult, sfirst, scalls,
          max_images, search_results, fpc, ptask, viral_images, output_file, reports,
          wmode, wpc, wexpired, at_expiry, wresult,
          sweep_config, sweep_q, sweep_at, sweep_pc, in_flight,
          ptext, presult>>

(***************************************************************************)
(* Bounds of the model and constants of the program.                       *)
(***************************************************************************)
NumTasks == 2
MaxTime == 450
TickLen == 150
Cooldown == 300
NONE == -1
MaxResults == 3
NumQueries == 8
MaxLen == 3
MaxDirect == 2
MaxCalls == 2
MaxFound == 4
MaxSyncFound == 2
MaxText == 4
max_concurrent == 3
BackupBelow == 3
AlternativeBelow == 15

Tasks == 1..NumTasks

Services == {"serper", "rapidapi", "apify"}

\* The key configurations the model starts from: what the environment holds.
\* _load_multiple_api_keys reads up to 3 apify keys, 2 serper and 2 rapidapi keys.
Configs ==
    { [serper |-> 2, rapidapi |-> 0, apify |-> 0],
      [serper |-> 0, rapidapi |-> 2, apify |-> 0],
      [serper |-> 0, rapidapi |-> 0, apify |-> 1],
      [serper |-> 0, rapidapi |-> 0, apify |-> 3],
      [serper |-> 2, rapidapi |-> 1, apify |-> 0] }

Slots(service) == 0..(api_keys[service] - 1)

\* _load_multiple_api_keys: range(1, 4) for apify, range(1, 3) for serper and rapidapi
MaxKeys(service) ==
    CASE service = "apify" -> 3
      [] service = "serper" -> 2
      [] service = "rapidapi" -> 2

\* every identifier f"{service}_{index}" a configuration can give rise to
Ids == UNION { { <<s, i>> : i \in 0..(MaxKeys(s) - 1) } : s \in Services }

(***************************************************************************)
(* _get_next_api_key(service): the scan of at most len(keys) positions      *)
(* from current_api_index; every position looked at advances the index.    *)
(* Returns the slot (NONE for None) and the index the call leaves behind.  *)
(***************************************************************************)
\* Variant: the scan gives up one position early.
RECURSIVE ScanKeysShort(_, _, _, _, _)
ScanKeysShort(service, n, failed, index, attempt) ==
    IF attempt = n - 1
    THEN [slot |-> NONE, index |-> index]
    ELSE IF <<service, index>> \notin failed
         THEN [slot |-> index, index |-> (index + 1) % n]
         ELSE ScanKeysShort(service, n, failed, (index + 1) % n, attempt + 1)

\* Variant: a failed position sends the scan backwards instead of forwards.
RECURSIVE ScanKeysBackward(_, _, _, _, _)
ScanKeysBackward(service, n, failed, index, attempt) ==
    IF attempt = n
    THEN [slot |-> NONE, index |-> index]
    ELSE IF <<service, index>> \notin failed
         THEN [slot |-> index, index |-> (index + 1) % n]
         ELSE ScanKeysBackward(service, n, failed, (index - 1) % n, attempt + 1)

RECURSIVE ScanKeys(_, _, _, _, _)
ScanKeys(service, n, failed, index, attempt) ==
    IF attempt = n
    THEN [slot |-> NONE, index |-> index]
    ELSE IF <<service, index>> \notin failed
         THEN [slot |-> index, index |-> (index + 1) % n]
         ELSE ScanKeys(service, n, failed, (index + 1) % n, attempt + 1)

\* Variant: the call does not look at failed_apis.
GetNextApiKeyIgnoringFailed(service, failed, index) ==
    IF api_keys[service] = 0
    THEN [slot |-> NONE, index |-> index]
    ELSE ScanKeys(service, api_keys[service], {}, index, 0)

\* Variant: the call leaves current_api_index where it found it.
GetNextApiKeyNoAdvance(service, failed, index) ==
    IF api_keys[service] = 0
    THEN [slot |-> NONE, index |-> index]
    ELSE [slot |-> ScanKeys(service, api_keys[service], failed, index, 0).slot,
          index |-> index]

GetNextApiKey(service, failed, index) ==
    IF api_keys[service] = 0
    THEN [slot |-> NONE, index |-> index]
    ELSE ScanKeys(service, api_keys[service], failed, index, 0)

\* Variant: a failure report blacklists the slot in every category.
MarkApiFailedEverywhere(failed, service, index) ==
    failed \cup { <<s, index>> : s \in Services }

\* Variant: a failure report forgets the identifiers recorded before it.
MarkApiFailedAlone(failed, service, index) == {<<service, index>>}

\* _mark_api_failed(service, index): the identifier joins failed_apis
MarkApiFailed(failed, service, index) == failed \cup {<<service, index>>}

\* the thread _mark_api_failed starts: sleeps 300 s, then removes the identifier
NewTimer(service, index) ==
    SetToBag({[svc |-> service, idx |-> index, wake |-> now + Cooldown]})

\* Variant: the index before the current one, without the modulo.
PrevIndexNoWrap(service, index) == index - 1

\* (self.current_api_index[service] - 1) % len(self.api_keys[service])
PrevIndex(service, index) == (index - 1) % api_keys[service]

\* A task between requests, and a request that has just been entered.
Idle == [pc |-> "idle", comp |-> "none", used |-> NONE, cap |-> NONE,
         i |-> 0, typ |-> 0, calls |-> 0]

Started(component) ==
    [pc |-> "dispatch", comp |-> component, used |-> NONE, cap |-> NONE,
     i |-> 0, typ |-> 1, calls |-> 0]

NoRet == [svc |-> "none", slot |-> NONE, start |-> NONE]
NoFail == [svc |-> "none", used |-> NONE, marked |-> NONE, by |-> 0]
NoClear == [svc |-> "none", idx |-> NONE]
NoSkip == "none"

Providers == {"serper", "google_cse", "rapidapi", "youtube", "facebook", "alternative"}

SearchConfigs == [serper : BOOLEAN, google : BOOLEAN, rapidapi : BOOLEAN]

RegInit ==
    /\ current_api_index = [s \in Services |-> 0]
    /\ failed_apis = {}
    /\ timers = EmptyBag
    /\ now = 0
    /\ task = [t \in Tasks |-> Idle]
    /\ lastRet = NoRet
    /\ lastFail = NoFail
    /\ lastClear = NoClear
    /\ lastSkip = NoSkip

SearchInit ==
    /\ spc = "serper"
    /\ qi = 1
    /\ results = 0
    /\ all_results = 0
    /\ returned = 0
    /\ called = [p \in Providers |-> 0]
    /\ raised = FALSE

\* the tail of search_images before any result has been gathered
DedupIdle ==
    /\ provided = <<>>
    /\ aggregated = <<>>
    /\ unique_results = <<>>
    /\ dpc = "idle"

NoRecord ==
    [source |-> "none", by |-> [k \in {} |-> "none"], engagement_score |-> NONE,
     views_estimate |-> NONE, likes_estimate |-> NONE, comments_estimate |-> NONE,
     shares_estimate |-> NONE]

\* analyze_post_engagement not called
ResolveIdle ==
    /\ resolve_url = ""
    /\ resolve_platform = "web"
    /\ playwright_enabled = FALSE
    /\ rpc = "idle"
    /\ ri = 1
    /\ attempts = <<>>
    /\ record = NoRecord
    /\ rstatus = "none"

NoArgs == [likes |-> 0, comments |-> 0, shares |-> 0, views |-> 0, followers |-> 0]
NoFirst == [value |-> NONE, at |-> NONE]

\* _calculate_engagement_score not called yet
ScoreIdle ==
    /\ sargs = NoArgs
    /\ sresult = NONE
    /\ sfirst = NoFirst
    /\ scalls = 0

\* find_viral_images not called
PipeIdle ==
    /\ max_images = 0
    /\ search_results = <<>>
    /\ fpc = "idle"
    /\ ptask = <<>>
    /\ viral_images = <<>>
    /\ output_file = "none"
    /\ reports = <<>>

\* find_viral_images_sync not called
SyncIdle ==
    /\ wmode = "idle"
    /\ wpc = "idle"
    /\ wexpired = FALSE
    /\ at_expiry = <<>>
    /\ wresult = <<>>

\* no provider sweep under way
RoundIdle ==
    /\ sweep_config = [serper |-> FALSE, google |-> FALSE, rapidapi |-> FALSE]
    /\ sweep_q = 1
    /\ sweep_at = "idle"
    /\ sweep_pc = "idle"
    /\ in_flight = 0

\* _extract_number_from_text not called
ParseIdle ==
    /\ ptext = <<>>
    /\ presult = NONE

RestIdle == PipeIdle /\ SyncIdle /\ RoundIdle /\ ParseIdle

\* the parts that follow the provider sweep, not started
LaterIdle == DedupIdle /\ ResolveIdle /\ ScoreIdle /\ RestIdle

Init ==
    /\ api_keys \in Configs
    /\ RegInit
    /\ config = [serper |-> FALSE, google |-> FALSE, rapidapi |-> FALSE]
    /\ SearchInit
    /\ LaterIdle

(***************************************************************************)
(* The clock and the clear_failure threads.  A thread whose sleep is over  *)
(* runs before the clock moves on.                                         *)
(***************************************************************************)
Tick ==
    /\ now < MaxTime
    /\ \A tm \in BagToSet(timers) : tm.wake > now
    /\ now' = IF now + TickLen > MaxTime THEN MaxTime ELSE now + TickLen
    /\ lastRet' = NoRet
    /\ lastSkip' = NoSkip
    /\ lastFail' = NoFail
    /\ lastClear' = NoClear
    /\ UNCHANGED <<api_keys, current_api_index, failed_apis, timers, task, searchVars, laterVars>>

\* Variant: the thread wakes up and removes nothing.
ClearedByNothing(failed, tm) == failed

\* clear_failure: if api_identifier in self.failed_apis: remove it
ClearedBy(failed, tm) == failed \ {<<tm.svc, tm.idx>>}

ClearFailure(tm) ==
    /\ BagIn(tm, timers)
    /\ now >= tm.wake
    /\ failed_apis' = ClearedBy(failed_apis, tm)
    /\ timers' = timers (-) SetToBag({tm})
    /\ lastRet' = NoRet
    /\ lastSkip' = NoSkip
    /\ lastFail' = NoFail
    /\ lastClear' = [svc |-> tm.svc, idx |-> tm.idx]
    /\ UNCHANGED <<api_keys, current_api_index, now, task, searchVars, laterVars>>

(***************************************************************************)
(* The effect of one _get_next_api_key call and of one failure report on   *)
(* the registry and on the history variables.                              *)
(***************************************************************************)
\* Variant: the component goes on to ask for a key.
NoKeysNever(service) == FALSE

\* if not self.api_keys.get(service): return [] (None for apify)
NoKeys(service) == api_keys[service] = 0

TakeKey(service, r) ==
    /\ current_api_index' = [current_api_index EXCEPT ![service] = r.index]
    /\ lastRet' = [svc |-> service, slot |-> r.slot, start |-> current_api_index[service]]
    /\ lastSkip' = NoSkip

ReportFailure(t, service, index) ==
    /\ failed_apis' = MarkApiFailed(failed_apis, service, index)
    /\ timers' = timers (+) NewTimer(service, index)
    /\ lastFail' = [svc |-> service, used |-> task[t].used, marked |-> index, by |-> t]
    /\ lastClear' = NoClear

\* A call can fail only while its cooldown still ends within the horizon.
CanFail == now + Cooldown <= MaxTime

\* for attempt in range(len(self.api_keys[service])): is there a pass after pass i
MoreAttempts(service, i) == i + 1 < api_keys[service]

(***************************************************************************)
(* _search_youtube_thumbnails, _search_facebook_specific and               *)
(* _search_alternative_strategies take a serper key and report nothing.    *)
(***************************************************************************)
SearchOtherGetKey ==
    /\ api_keys["serper"] > 0
    /\ TakeKey("serper", GetNextApiKey("serper", failed_apis, current_api_index["serper"]))
    /\ lastFail' = NoFail
    /\ lastClear' = NoClear
    /\ UNCHANGED <<api_keys, failed_apis, timers, now, task, searchVars, laterVars>>

(***************************************************************************)
(* _search_serper_advanced: for each of the two search types, take a key,  *)
(* then up to len(keys) calls; a failed call marks the slot found from     *)
(* current_api_index in the handler and takes the next key.                *)
(***************************************************************************)
SerperNextType(rec) ==
    IF rec.typ = 1
    THEN [rec EXCEPT !.pc = "dispatch", !.typ = 2, !.used = NONE, !.i = 0, !.calls = 0]
    ELSE Idle

\* the head of one search type: the key taken at line 498, then the first call
SerperTypeWith(rec, r) ==
    IF r.slot = NONE
    THEN SerperNextType(rec)
    ELSE [rec EXCEPT !.pc = "inflight", !.used = r.slot, !.i = 0, !.calls = 1]

\* the entry of _search_serper_advanced up to its first call; without a
\* configured key it returns [] at once and no key is asked for
StartSerper(t) ==
    /\ task[t].pc = "idle"
    /\ IF NoKeys("serper")
       THEN /\ task' = [task EXCEPT ![t] = Idle]
            /\ lastRet' = NoRet
            /\ lastSkip' = "serper"
            /\ UNCHANGED current_api_index
       ELSE LET r == GetNextApiKey("serper", failed_apis, current_api_index["serper"]) IN
              /\ TakeKey("serper", r)
              /\ task' = [task EXCEPT ![t] = SerperTypeWith(Started("serper"), r)]
    /\ lastFail' = NoFail
    /\ lastClear' = NoClear
    /\ UNCHANGED <<api_keys, failed_apis, timers, now, searchVars, laterVars>>

\* the second search type, entered after the sleep that ends the first
SerperDispatch(t) ==
    /\ task[t].pc = "dispatch"
    /\ task[t].comp = "serper"
    /\ LET r == GetNextApiKey("serper", failed_apis, current_api_index["serper"]) IN
         /\ TakeKey("serper", r)
         /\ task' = [task EXCEPT ![t] = SerperTypeWith(task[t], r)]
    /\ lastFail' = NoFail
    /\ lastClear' = NoClear
    /\ UNCHANGED <<api_keys, failed_apis, timers, now, searchVars, laterVars>>

SerperSucceed(t) ==
    /\ task[t].pc = "inflight"
    /\ task[t].comp = "serper"
    /\ task' = [task EXCEPT ![t] = SerperNextType(task[t])]
    /\ lastRet' = NoRet
    /\ lastSkip' = NoSkip
    /\ lastFail' = NoFail
    /\ lastClear' = NoClear
    /\ UNCHANGED <<api_keys, current_api_index, failed_apis, timers, now, searchVars, laterVars>>

\* Variant: the next pass goes out with the key that has just failed.
SerperAfterFailSameKey(rec, r) ==
    IF MoreAttempts("serper", rec.i)
    THEN [rec EXCEPT !.i = rec.i + 1, !.calls = rec.calls + 1]
    ELSE SerperNextType(rec)

\* the retry loop after a failed call, r being the key taken in the handler:
\* no key breaks the loop, a key goes into the headers of the next pass, if any
SerperAfterFail(rec, r) ==
    IF r.slot = NONE
    THEN SerperNextType(rec)
    ELSE IF MoreAttempts("serper", rec.i)
         THEN [rec EXCEPT !.used = r.slot, !.i = rec.i + 1, !.calls = rec.calls + 1]
         ELSE SerperNextType(rec)

SerperFail(t) ==
    /\ task[t].pc = "inflight"
    /\ task[t].comp = "serper"
    /\ CanFail
    /\ LET current_index == PrevIndex("serper", current_api_index["serper"])
           r == GetNextApiKey("serper",
                              MarkApiFailed(failed_apis, "serper", current_index),
                              current_api_index["serper"])
       IN
         /\ ReportFailure(t, "serper", current_index)
         /\ TakeKey("serper", r)
         /\ task' = [task EXCEPT ![t] = SerperAfterFail(task[t], r)]
    /\ UNCHANGED <<api_keys, now, searchVars, laterVars>>

(***************************************************************************)
(* _search_rapidapi_instagram: up to len(keys) attempts, each taking a key *)
(* and making one call; a failed call marks the slot found from            *)
(* current_api_index in the handler, then the loop goes on.                *)
(***************************************************************************)
\* Variant: the pass makes its call whether or not a key came back.
AttemptWithoutKeyCheck(rec, r, attempt) ==
    [rec EXCEPT !.pc = "inflight", !.used = r.slot, !.i = attempt,
                !.calls = rec.calls + 1]

\* one pass of the attempt loop up to the call: api_key None breaks the loop
AttemptWith(rec, r, attempt) ==
    IF r.slot = NONE
    THEN Idle
    ELSE [rec EXCEPT !.pc = "inflight", !.used = r.slot, !.i = attempt,
                     !.calls = rec.calls + 1]

\* the entry of _search_rapidapi_instagram up to its first call; without a
\* configured key it returns [] at once and no key is asked for
StartRapidapi(t) ==
    /\ task[t].pc = "idle"
    /\ IF NoKeys("rapidapi")
       THEN /\ task' = [task EXCEPT ![t] = Idle]
            /\ lastRet' = NoRet
            /\ lastSkip' = "rapidapi"
            /\ UNCHANGED current_api_index
       ELSE LET r == GetNextApiKey("rapidapi", failed_apis, current_api_index["rapidapi"]) IN
              /\ TakeKey("rapidapi", r)
              /\ task' = [task EXCEPT ![t] = AttemptWith(Started("rapidapi"), r, 0)]
    /\ lastFail' = NoFail
    /\ lastClear' = NoClear
    /\ UNCHANGED <<api_keys, failed_apis, timers, now, searchVars, laterVars>>

RapidapiSucceed(t) ==
    /\ task[t].pc = "inflight"
    /\ task[t].comp = "rapidapi"
    /\ task' = [task EXCEPT ![t] = Idle]
    /\ lastRet' = NoRet
    /\ lastSkip' = NoSkip
    /\ lastFail' = NoFail
    /\ lastClear' = NoClear
    /\ UNCHANGED <<api_keys, current_api_index, failed_apis, timers, now, searchVars, laterVars>>

RapidapiFail(t) ==
    /\ task[t].pc = "inflight"
    /\ task[t].comp = "rapidapi"
    /\ CanFail
    /\ LET current_index == PrevIndex("rapidapi", current_api_index["rapidapi"])
           r == GetNextApiKey("rapidapi",
                              MarkApiFailed(failed_apis, "rapidapi", current_index),
                              current_api_index["rapidapi"])
       IN
         /\ ReportFailure(t, "rapidapi", current_index)
         /\ IF MoreAttempts("rapidapi", task[t].i)
            THEN /\ TakeKey("rapidapi", r)
                 /\ task' = [task EXCEPT ![t] = AttemptWith(task[t], r, task[t].i + 1)]
            ELSE /\ task' = [task EXCEPT ![t] = Idle]
                 /\ lastRet' = NoRet
                 /\ lastSkip' = NoSkip
                 /\ UNCHANGED current_api_index
    /\ UNCHANGED <<api_keys, now, searchVars, laterVars>>

(***************************************************************************)
(* _analyze_with_apify_rotation: as the rapidapi loop, but the index of    *)
(* the slot is computed right after the key is taken, before the call.     *)
(***************************************************************************)
\* current_index = (self.current_api_index['apify'] - 1) % len(keys), before the try
ApifyAttemptWith(rec, r, attempt) ==
    IF r.slot = NONE
    THEN Idle
    ELSE [rec EXCEPT !.pc = "inflight", !.used = r.slot, !.i = attempt,
                     !.cap = PrevIndex("apify", r.index), !.calls = rec.calls + 1]

\* the entry of _analyze_with_apify_rotation up to its first call; without a
\* configured key it returns None at once and no key is asked for
StartApify(t) ==
    /\ task[t].pc = "idle"
    /\ IF NoKeys("apify")
       THEN /\ task' = [task EXCEPT ![t] = Idle]
            /\ lastRet' = NoRet
            /\ lastSkip' = "apify"
            /\ UNCHANGED current_api_index
       ELSE LET r == GetNextApiKey("apify", failed_apis, current_api_index["apify"]) IN
              /\ TakeKey("apify", r)
              /\ task' = [task EXCEPT ![t] = ApifyAttemptWith(Started("apify"), r, 0)]
    /\ lastFail' = NoFail
    /\ lastClear' = NoClear
    /\ UNCHANGED <<api_keys, failed_apis, timers, now, searchVars, laterVars>>

ApifySucceed(t) ==
    /\ task[t].pc = "inflight"
    /\ task[t].comp = "apify"
    /\ task' = [task EXCEPT ![t] = Idle]
    /\ lastRet' = NoRet
    /\ lastSkip' = NoSkip
    /\ lastFail' = NoFail
    /\ lastClear' = NoClear
    /\ UNCHANGED <<api_keys, current_api_index, failed_apis, timers, now, searchVars, laterVars>>

ApifyFail(t) ==
    /\ task[t].pc = "inflight"
    /\ task[t].comp = "apify"
    /\ CanFail
    /\ LET r == GetNextApiKey("apify",
                              MarkApiFailed(failed_apis, "apify", task[t].cap),
                              current_api_index["apify"])
       IN
         /\ ReportFailure(t, "apify", task[t].cap)
         /\ IF MoreAttempts("apify", task[t].i)
            THEN /\ TakeKey("apify", r)
                 /\ task' = [task EXCEPT ![t] = ApifyAttemptWith(task[t], r, task[t].i + 1)]
            ELSE /\ task' = [task EXCEPT ![t] = Idle]
                 /\ lastRet' = NoRet
                 /\ lastSkip' = NoSkip
                 /\ UNCHANGED current_api_index
    /\ UNCHANGED <<api_keys, now, searchVars, laterVars>>

Next ==
    \/ Tick
    \/ \E tm \in BagToSet(timers) : ClearFailure(tm)
    \/ SearchOtherGetKey
    \/ \E t \in Tasks : StartSerper(t)
    \/ \E t \in Tasks : SerperDispatch(t)
    \/ \E t \in Tasks : SerperSucceed(t)
    \/ \E t \in Tasks : SerperFail(t)
    \/ \E t \in Tasks : StartRapidapi(t)
    \/ \E t \in Tasks : RapidapiSucceed(t)
    \/ \E t \in Tasks : RapidapiFail(t)
    \/ \E t \in Tasks : StartApify(t)
    \/ \E t \in Tasks : ApifySucceed(t)
    \/ \E t \in Tasks : ApifyFail(t)

Spec == Init /\ [][Next]_vars

\* Time passes, and a clear_failure thread whose sleep is over gets to run.
FairSpec ==
    /\ Init
    /\ [][Next]_vars
    /\ WF_vars(Tick)
    /\ WF_vars(\E tm \in BagToSet(timers) : ClearFailure(tm))

(***************************************************************************)
(* search_images, lines 268-322: the sweep over the providers.  A provider *)
(* call either returns a list (here its length) or raises; every call sits *)
(* in its own try/except, which logs and goes on.                          *)
(***************************************************************************)
Outcomes ==
    {[ok |-> FALSE, n |-> 0]} \cup {[ok |-> TRUE, n |-> k] : k \in 0..MaxResults}

\* try: r = await provider(...); acc.extend(r)   except Exception: log
\* Variant: a provider that raises takes the results gathered so far with it.
ExtendLosing(acc, o) == IF o.ok THEN acc + o.n ELSE 0

Extend(acc, o) == IF o.ok THEN acc + o.n ELSE acc

\* the history of one provider call
Record(p, o) ==
    /\ called' = [called EXCEPT ![p] = called[p] + 1]
    /\ returned' = IF o.ok THEN returned + o.n ELSE returned
    /\ raised' = (raised \/ ~o.ok)

NoCallMade == UNCHANGED <<called, returned, raised>>

\* for q in queries[:8]: results = []; Serper first, if serper_api_key is set
SearchSerper ==
    /\ spc = "serper"
    /\ IF config.serper
       THEN \E o \in Outcomes :
              /\ results' = Extend(0, o)
              /\ Record("serper", o)
       ELSE /\ results' = 0
            /\ NoCallMade
    /\ spc' = "google_cse"
    /\ UNCHANGED <<regVars, laterVars, config, qi, all_results>>

\* Google CSE as backup when len(results) < 3; then all_results.extend(results)
SearchGoogleCse ==
    /\ spc = "google_cse"
    /\ IF results < BackupBelow /\ config.google
       THEN \E o \in Outcomes :
              /\ all_results' = all_results + Extend(results, o)
              /\ Record("google_cse", o)
       ELSE /\ all_results' = all_results + results
            /\ NoCallMade
    /\ results' = 0
    /\ qi' = qi + 1
    /\ spc' = IF qi = NumQueries THEN "rapidapi" ELSE "serper"
    /\ UNCHANGED <<regVars, laterVars, config>>

\* the providers after the query loop, each called once, in this order
AfterProvider(p) ==
    CASE p = "rapidapi" -> "youtube"
      [] p = "youtube" -> "facebook"
      [] p = "facebook" -> "alternative"
      [] p = "alternative" -> "done"

CallProvider(p) ==
    \E o \in Outcomes :
      /\ all_results' = Extend(all_results, o)
      /\ Record(p, o)

SearchRapidapi ==
    /\ spc = "rapidapi"
    /\ IF config.rapidapi
       THEN CallProvider("rapidapi")
       ELSE /\ NoCallMade
            /\ UNCHANGED all_results
    /\ spc' = AfterProvider("rapidapi")
    /\ UNCHANGED <<regVars, laterVars, config, qi, results>>

SearchYoutube ==
    /\ spc = "youtube"
    /\ CallProvider("youtube")
    /\ spc' = AfterProvider("youtube")
    /\ UNCHANGED <<regVars, laterVars, config, qi, results>>

SearchFacebook ==
    /\ spc = "facebook"
    /\ CallProvider("facebook")
    /\ spc' = AfterProvider("facebook")
    /\ UNCHANGED <<regVars, laterVars, config, qi, results>>

\* if len(all_results) < 15: the alternative strategies
SearchAlternative ==
    /\ spc = "alternative"
    /\ IF all_results < AlternativeBelow
       THEN CallProvider("alternative")
       ELSE /\ NoCallMade
            /\ UNCHANGED all_results
    /\ spc' = AfterProvider("alternative")
    /\ UNCHANGED <<regVars, laterVars, config, qi, results>>

SearchStartInit ==
    /\ api_keys = [serper |-> 0, rapidapi |-> 0, apify |-> 0]
    /\ RegInit
    /\ config \in SearchConfigs
    /\ SearchInit
    /\ LaterIdle

SearchNext ==
    \/ SearchSerper
    \/ SearchGoogleCse
    \/ SearchRapidapi
    \/ SearchYoutube
    \/ SearchFacebook
    \/ SearchAlternative

SpecSearch == SearchStartInit /\ [][SearchNext]_vars

(***************************************************************************)
(* Part 3 (SpecDedup): the tail of search_images, lines 324-377.  The      *)
(* provider sweep has left a list of results; the direct extractors add    *)
(* results for the Instagram, Facebook and LinkedIn page URLs found in it, *)
(* and the final loop keeps one result per valid, trimmed page_url.        *)
(*                                                                         *)
(* A result is seen by its page_url and by image_url, which stands for the *)
(* rest of the result and tells results apart.  The page URLs are a small  *)
(* corpus; what the patterns of _is_valid_social_url find in each of them  *)
(* was computed with the patterns of the source.                           *)
(***************************************************************************)
InstaPost == "https://www.instagram.com/p/abc/"
InstaPostPadded == " https://www.instagram.com/p/abc/ "
InstaMedia == "https://www.instagram.com/p/abc/?media_id=1"
FbPost == "https://www.facebook.com/user/posts/123"
FbPostPadded == " https://www.facebook.com/user/posts/123 "
FbPostMedia == "https://www.facebook.com/user/posts/123?media_id=9"
CdnImage == "https://scontent-x.fbcdn.net/v/img.jpg"
OtherPage == "https://example.com/page"
YoutubeWatch == "https://www.youtube.com/watch?v=abc"
YoutubeJpg == "https://www.youtube.com/watch?v=abc.jpg"
LinkedinFeed == "https://www.linkedin.com/feed/update/urn:li:1"
Blank == "  "
InstaReel == "https://www.instagram.com/reel/xyz/"
InstaProfile == "https://www.instagram.com/user/"
FbPhotos == "https://www.facebook.com/user/photos/123"
TiktokVideo == "https://www.tiktok.com/@user/video/123"

\* the page_url values a provider result may carry ("" also for a missing key)
PageUrls ==
    { "", Blank, InstaPost, InstaPostPadded, InstaMedia, FbPost, FbPostPadded, FbPostMedia,
      CdnImage, OtherPage, YoutubeWatch, YoutubeJpg, LinkedinFeed }

\* str.strip() on the corpus
Strip(page_url) ==
    CASE page_url = InstaPostPadded -> InstaPost
      [] page_url = FbPostPadded -> FbPost
      [] page_url = Blank -> ""
      [] OTHER -> page_url

\* invalid_patterns (386-399), numbered in list order: those re.search finds
InvalidHits(url) ==
    CASE url = InstaMedia -> {5}
      [] url = FbPostMedia -> {5}
      [] url = CdnImage -> {3, 4, 11, 13, 14}
      [] url = YoutubeJpg -> {11}
      [] OTHER -> {}

\* valid_patterns (408-420), numbered in list order: those re.search finds
ValidHits(url) ==
    CASE url = InstaPost -> {1}
      [] url = FbPost -> {4}
      [] url = FbPostPadded -> {4}
      [] url = FbPostMedia -> {4}
      [] url = YoutubeWatch -> {8}
      [] url = YoutubeJpg -> {8}
      [] url = LinkedinFeed -> {11}
      [] url = InstaReel -> {2}
      [] url = TiktokVideo -> {12}
      [] OTHER -> {}

InvalidPatterns == 1..14
ValidPatterns == 1..13

\* Variant: the post-URL shapes are tried first and accept at once.
IsValidSocialUrlAllowFirst(url) ==
    IF url = ""
    THEN FALSE
    ELSE IF \E p \in ValidPatterns : p \in ValidHits(url)
         THEN TRUE
         ELSE FALSE

\* _is_valid_social_url(url)
IsValidSocialUrl(url) ==
    IF url = ""
    THEN FALSE
    ELSE IF \E p \in InvalidPatterns : p \in InvalidHits(url)
         THEN FALSE
         ELSE \E p \in ValidPatterns : p \in ValidHits(url)

\* lines 333-339: the list a page_url is collected into
DirectKind(page_url) ==
    CASE page_url \in {InstaPost, InstaPostPadded, InstaMedia} -> "instagram"
      [] page_url \in {FbPost, FbPostPadded, FbPostMedia} -> "facebook"
      [] page_url = LinkedinFeed -> "linkedin"
      [] OTHER -> "none"

\* the order of the three extraction loops, and list(set(urls))[:k] of each
KindRank(kind) ==
    CASE kind = "instagram" -> 1
      [] kind = "facebook" -> 2
      [] kind = "linkedin" -> 3

KindLimit(kind) ==
    CASE kind = "instagram" -> 5
      [] kind = "facebook" -> 3
      [] kind = "linkedin" -> 3

SeqRange(list) == { list[i] : i \in DOMAIN list }

\* instagram_urls, facebook_urls and linkedin_urls together
DirectUrls(list) ==
    { r.page_url : r \in { x \in SeqRange(list) : DirectKind(x.page_url) # "none" } }

\* Variant: an extractor reports its results under a page of its own.
DirectResultElsewhere(post_url, n, shape) ==
    [page_url |-> YoutubeWatch, image_url |-> n, source |-> "direct"]

\* the key under which an extractor puts the URL it was given: 'page_url'
\* in most results, 'post_url' (and no page_url) in the fallback results,
\* as in lines 1089-1110
DirectShapes == {"page_url", "post_url"}

\* what the direct extractors return, as the final loop reads it:
\* result.get('page_url', '')
DirectResult(post_url, n, shape) ==
    [page_url |-> IF shape = "page_url" THEN post_url ELSE "",
     image_url |-> n, source |-> "direct"]

\* the results of the provider calls, in the order they were gathered
ProviderResults(urls) ==
    [i \in 1..Len(urls) |-> [page_url |-> urls[i], image_url |-> i, source |-> "search"]]

\* the URLs whose extractor returned something, one entry per result, in the
\* order of the loops: Instagram, then Facebook, then LinkedIn, the results
\* of one URL together
Extractions(list) ==
    { p \in UNION { [1..n -> DirectUrls(list)] : n \in 0..MaxDirect } :
        /\ \A i, j \in DOMAIN p :
             i < j => KindRank(DirectKind(p[i])) <= KindRank(DirectKind(p[j]))
        /\ \A i, j \in DOMAIN p :
             (i < j /\ p[i] = p[j]) => \A k \in i..j : p[k] = p[i]
        /\ \A kind \in {"instagram", "facebook", "linkedin"} :
             Cardinality({ u \in SeqRange(p) : DirectKind(u) = kind }) <= KindLimit(kind) }

\* Variant: the key of the final loop is the page_url as it came.
PostUrlUntrimmed(result) == result.page_url

\* post_url = result.get('page_url', '').strip()
PostUrl(result) == Strip(result.page_url)

\* Variant: everything not seen before is kept.
KeepsUnseen(post_url, seen_urls) == post_url \notin seen_urls

\* if post_url and post_url not in seen_urls and self._is_valid_social_url(post_url)
Keeps(post_url, seen_urls) ==
    /\ post_url # ""
    /\ post_url \notin seen_urls
    /\ IsValidSocialUrl(post_url)

\* the loop of lines 369-375 from position i on
RECURSIVE UniqueFrom(_, _, _, _)
UniqueFrom(list, i, seen_urls, unique) ==
    IF i > Len(list)
    THEN unique
    ELSE IF Keeps(PostUrl(list[i]), seen_urls)
         THEN UniqueFrom(list, i + 1, seen_urls \cup {PostUrl(list[i])},
                         Append(unique, list[i]))
         ELSE UniqueFrom(list, i + 1, seen_urls, unique)

DedupInit ==
    /\ api_keys = [serper |-> 0, rapidapi |-> 0, apify |-> 0]
    /\ RegInit
    /\ config = [serper |-> FALSE, google |-> FALSE, rapidapi |-> FALSE]
    /\ SearchInit
    /\ provided \in { ProviderResults(urls) :
                        urls \in UNION { [1..n -> PageUrls] : n \in 0..MaxLen } }
    /\ aggregated = provided
    /\ unique_results = <<>>
    /\ dpc = "collected"
    /\ ResolveIdle
    /\ ScoreIdle
    /\ RestIdle

\* lines 324-367: direct extraction, its results appended to all_results
ExtractDirect ==
    /\ dpc = "collected"
    /\ \E p \in Extractions(aggregated) :
         \E shape \in [1..Len(p) -> DirectShapes] :
           aggregated' = aggregated \o
               [i \in 1..Len(p) |-> DirectResult(p[i], Len(aggregated) + i, shape[i])]
    /\ dpc' = "extracted"
    /\ UNCHANGED <<regVars, searchVars, resolveVars, scoreVars, restVars, provided, unique_results>>

\* lines 368-377: remove duplicates, keep the valid URLs, return
RemoveDuplicates ==
    /\ dpc = "extracted"
    /\ unique_results' = UniqueFrom(aggregated, 1, {}, <<>>)
    /\ dpc' = "done"
    /\ UNCHANGED <<regVars, searchVars, resolveVars, scoreVars, restVars, provided, aggregated>>

DedupNext == ExtractDirect \/ RemoveDuplicates

SpecDedup == DedupInit /\ [][DedupNext]_vars

(***************************************************************************)
(* Part 4 (SpecResolve): analyze_post_engagement(post_url, platform).  The *)
(* if/elif chain picks the strategies of the platform (the second          *)
(* `elif platform == 'facebook'` and `elif platform == 'linkedin'` can     *)
(* never be taken, and the Playwright step is under `if False`); each      *)
(* strategy is seen by its outcome; the estimate by platform comes last.   *)
(***************************************************************************)
PostUrls ==
    { InstaPost, InstaReel, InstaProfile, FbPost, FbPhotos, YoutubeWatch,
      LinkedinFeed, TiktokVideo, OtherPage }

PlatformValues == {"instagram", "facebook", "youtube", "linkedin", "tiktok", "web"}

\* '/p/' in post_url or '/reel/' in post_url
HasPostPath(post_url) == post_url \in {InstaPost, InstaMedia, InstaReel}

\* '/reel/' in post_url, '/photos/' in post_url, 'youtube' in post_url
HasReel(post_url) == post_url = InstaReel
HasPhotos(post_url) == post_url = FbPhotos
HasYoutube(post_url) == post_url \in {YoutubeWatch, YoutubeJpg}

\* the strategies the chain of the platform tries, in the order of the code
Chain(post_url, platform) ==
    CASE platform = "instagram" /\ HasPostPath(post_url) -> <<"sssinstagram_marketing">>
      [] platform = "instagram" /\ ~HasPostPath(post_url) -> <<>>
      [] platform = "facebook" -> <<"hitube_marketing">>
      [] platform = "youtube" -> <<"youtube_thumbnail_marketing">>
      [] platform = "linkedin" -> <<"linkedin_marketing">>
      [] platform = "tiktok" -> <<"tiktok_marketing", "apify", "instagram_embed">>
      [] OTHER -> <<>>

\* what a strategy call can do: return data, return nothing, raise, time out
\* (asyncio.TimeoutError, an Exception like any other)
StrategyOutcomes == {"data", "empty", "exception", "timeout"}

MarketingKeys == {"likes", "comments", "shares", "views", "images", "platform", "source"}

EstimateKeys ==
    {"engagement_score", "views_estimate", "likes_estimate", "comments_estimate",
     "shares_estimate", "author", "author_followers", "post_date", "hashtags"}

\* the first item of the Apify dataset, as far as the record reads it
ApifyPostData == [likesCount |-> 10, commentsCount |-> 2, videoViewCount |-> 0]

\* Variant: keys the strategy did not fill are taken from the estimate.
RecordOfFilledUp(strategy) ==
    [source |-> strategy,
     by |-> [k \in MarketingKeys \cup EstimateKeys |->
                IF k \in MarketingKeys THEN strategy ELSE "estimate"],
     engagement_score |-> 10, views_estimate |-> 200, likes_estimate |-> 20,
     comments_estimate |-> 3, shares_estimate |-> 5]

\* the record returned when the strategy has returned data; `by` names, for
\* each key of the record, the strategy whose output its value comes from
RecordOf(strategy) ==
    CASE strategy = "apify" ->
           [source |-> strategy, by |-> [k \in EstimateKeys |-> strategy],
            engagement_score |-> ApifyPostData.likesCount + ApifyPostData.commentsCount * 3,
            views_estimate |-> IF ApifyPostData.videoViewCount # 0
                               THEN ApifyPostData.videoViewCount
                               ELSE ApifyPostData.likesCount * 10,
            likes_estimate |-> ApifyPostData.likesCount,
            comments_estimate |-> ApifyPostData.commentsCount,
            shares_estimate |-> ApifyPostData.commentsCount \div 2]
      [] strategy = "instagram_embed" ->
           [source |-> strategy, by |-> [k \in EstimateKeys |-> strategy],
            engagement_score |-> 50, views_estimate |-> 1000, likes_estimate |-> 50,
            comments_estimate |-> 5, shares_estimate |-> 10]
      [] OTHER ->
           [source |-> strategy, by |-> [k \in MarketingKeys |-> strategy],
            engagement_score |-> NONE, views_estimate |-> NONE,
            likes_estimate |-> NONE, comments_estimate |-> NONE,
            shares_estimate |-> NONE]

\* _estimate_engagement_by_platform: base_score
BaseScore(post_url, platform) ==
    CASE platform = "instagram" -> IF HasReel(post_url) THEN 30 + 20 ELSE 30
      [] platform = "facebook" -> IF HasPhotos(post_url) THEN 20 + 10 ELSE 20
      [] platform \notin {"instagram", "facebook"} /\ HasYoutube(post_url) -> 40
      [] OTHER -> 10

\* _estimate_engagement_by_platform: multiplier; a post_url with 'youtube'
\* in it turns every platform but instagram and facebook into youtube
Multiplier(post_url, platform) ==
    CASE platform = "instagram" -> 25
      [] platform = "facebook" -> 15
      [] platform = "youtube" -> 50
      [] platform \notin {"instagram", "facebook"} /\ HasYoutube(post_url) -> 50
      [] OTHER -> 20

\* Variant: a platform without a table entry gets no estimate.
EstimateEngagementKnownOnly(post_url, platform) ==
    IF platform \in {"instagram", "facebook", "youtube"}
    THEN [source |-> "estimate", by |-> [k \in EstimateKeys |-> "estimate"],
          engagement_score |-> BaseScore(post_url, platform),
          views_estimate |-> BaseScore(post_url, platform) * Multiplier(post_url, platform),
          likes_estimate |-> BaseScore(post_url, platform) * 2,
          comments_estimate |-> (BaseScore(post_url, platform) * 3) \div 10,
          shares_estimate |-> BaseScore(post_url, platform) \div 2]
    ELSE NoRecord

\* _estimate_engagement_by_platform(post_url, platform)
EstimateEngagementByPlatform(post_url, platform) ==
    [source |-> "estimate", by |-> [k \in EstimateKeys |-> "estimate"],
     engagement_score |-> BaseScore(post_url, platform),
     views_estimate |-> BaseScore(post_url, platform) * Multiplier(post_url, platform),
     likes_estimate |-> BaseScore(post_url, platform) * 2,
     comments_estimate |-> (BaseScore(post_url, platform) * 3) \div 10,
     shares_estimate |-> BaseScore(post_url, platform) \div 2]

\* Variant: an exception of a strategy leaves analyze_post_engagement.
CaughtNone(outcome) == outcome = "empty"

\* except Exception: log and go on (an empty result goes on as well)
Caught(outcome) == outcome \in {"empty", "exception", "timeout"}

\* Variant: the strategy that yielded nothing is tried again.
NextStrategySame(i) == i

\* the strategy that follows strategy i of the chain
NextStrategy(i) == i + 1

ResolveInit ==
    /\ api_keys = [serper |-> 0, rapidapi |-> 0, apify |-> 0]
    /\ RegInit
    /\ config = [serper |-> FALSE, google |-> FALSE, rapidapi |-> FALSE]
    /\ SearchInit
    /\ DedupIdle
    /\ ScoreIdle
    /\ RestIdle
    /\ resolve_url \in PostUrls
    /\ resolve_platform \in PlatformValues
    /\ playwright_enabled \in BOOLEAN
    /\ rpc = "trying"
    /\ ri = 1
    /\ attempts = <<>>
    /\ record = NoRecord
    /\ rstatus = "none"

\* one strategy of the chain: its call, and what the code does with the outcome
TryStrategy ==
    /\ rpc = "trying"
    /\ ri <= Len(Chain(resolve_url, resolve_platform))
    /\ \E outcome \in StrategyOutcomes :
         LET strategy == Chain(resolve_url, resolve_platform)[ri] IN
           /\ attempts' = Append(attempts, [strategy |-> strategy, outcome |-> outcome])
           /\ IF outcome = "data"
              THEN /\ record' = RecordOf(strategy)
                   /\ rstatus' = "RESOLVED"
                   /\ rpc' = "done"
                   /\ ri' = ri
              ELSE IF Caught(outcome)
                   THEN /\ ri' = NextStrategy(ri)
                        /\ UNCHANGED <<record, rstatus, rpc>>
                   ELSE /\ rpc' = "raised"
                        /\ UNCHANGED <<record, rstatus, ri>>
    /\ UNCHANGED <<regVars, searchVars, dedupVars, scoreVars, restVars, resolve_url,
                   resolve_platform, playwright_enabled>>

\* Variant: the Playwright step is taken whatever the configuration says.
PlaywrightStepAlways(enabled) == TRUE

\* line 3127: `if False:  # Playwright desabilitado`, the condition under
\* which analyze_post_engagement calls _analyze_with_playwright_robust
PlaywrightStep(enabled) == FALSE

\* lines 3127-3138: the Playwright step, were it taken, and the last
\* fallback, the estimate by platform
Estimate ==
    /\ rpc = "trying"
    /\ ri > Len(Chain(resolve_url, resolve_platform))
    /\ IF PlaywrightStep(playwright_enabled)
       THEN \E outcome \in StrategyOutcomes :
              /\ attempts' = Append(attempts, [strategy |-> "playwright", outcome |-> outcome])
              /\ IF outcome = "data"
                 THEN /\ record' = RecordOf("playwright")
                      /\ rstatus' = "RESOLVED"
                 ELSE /\ record' = EstimateEngagementByPlatform(resolve_url, resolve_platform)
                      /\ rstatus' = "ESTIMATED"
       ELSE /\ attempts' = attempts
            /\ record' = EstimateEngagementByPlatform(resolve_url, resolve_platform)
            /\ rstatus' = "ESTIMATED"
    /\ rpc' = "done"
    /\ UNCHANGED <<regVars, searchVars, dedupVars, scoreVars, restVars, resolve_url,
                   resolve_platform, playwright_enabled, ri>>

ResolveNext == TryStrategy \/ Estimate

SpecResolve == ResolveInit /\ [][ResolveNext]_vars

\* every strategy call returns, and the function runs on
FairSpecResolve == ResolveInit /\ [][ResolveNext]_vars /\ WF_vars(ResolveNext)

(***************************************************************************)
(* Part 5 (SpecScore): _calculate_engagement_score.  The function works in *)
(* floats and rounds to two decimals; here a value is kept exactly, as the *)
(* fraction num/den of hundredths, and the result is a whole number of     *)
(* hundredths (126.0 is 12600).  The calls are made while the clock and    *)
(* the key rotation of the shared instance move on.                        *)
(***************************************************************************)
ScoreArgs ==
    [likes : {0, 50, 600}, comments : {0, 5, 50, 70}, shares : {0, 20},
     views : {0, 300, 1000}, followers : {0, 1000}]

\* total_interactions = likes + (comments * 5) + (shares * 10)
TotalInteractions(likes, comments, shares) == likes + (comments * 5) + (shares * 10)

\* rate before the bonus, in hundredths
Rate(total_interactions, views, followers) ==
    IF views > 0
    THEN [num |-> total_interactions * 100 * 100, den |-> views]
    ELSE IF followers > 0
         THEN [num |-> total_interactions * 100 * 100, den |-> followers]
         ELSE [num |-> total_interactions * 100, den |-> 1]

\* if total_interactions > 100: rate *= 1.2
WithBonus(total_interactions, rate) ==
    IF total_interactions > 100
    THEN [num |-> rate.num * 12, den |-> rate.den * 10]
    ELSE rate

\* max(rate, float(total_interactions * 0.1)), in hundredths
WithFloor(total_interactions, rate) ==
    IF rate.num < total_interactions * 10 * rate.den
    THEN [num |-> total_interactions * 10, den |-> 1]
    ELSE rate

\* round(x, 2): the nearest hundredth, the even one of two equally near
RoundHundredths(x) ==
    LET q == x.num \div x.den
        r == x.num % x.den
    IN IF 2 * r < x.den THEN q
       ELSE IF 2 * r > x.den THEN q + 1
       ELSE IF q % 2 = 0 THEN q ELSE q + 1

\* Variant: the bonus for more than 100 interactions is left out.
CalculateEngagementScoreNoBonus(likes, comments, shares, views, followers) ==
    LET total_interactions == TotalInteractions(likes, comments, shares)
        rate == Rate(total_interactions, views, followers)
    IN RoundHundredths(WithFloor(total_interactions, rate))

\* Variant: the score grows with the time of the call.
CalculateEngagementScoreByClock(likes, comments, shares, views, followers) ==
    LET total_interactions == TotalInteractions(likes, comments, shares)
        rate == WithBonus(total_interactions, Rate(total_interactions, views, followers))
    IN RoundHundredths(WithFloor(total_interactions, rate)) + now

\* _calculate_engagement_score(likes, comments, shares, views, followers)
CalculateEngagementScore(likes, comments, shares, views, followers) ==
    LET total_interactions == TotalInteractions(likes, comments, shares)
        rate == WithBonus(total_interactions, Rate(total_interactions, views, followers))
    IN RoundHundredths(WithFloor(total_interactions, rate))

ScoreInit ==
    /\ api_keys = [serper |-> 2, rapidapi |-> 0, apify |-> 0]
    /\ RegInit
    /\ config = [serper |-> FALSE, google |-> FALSE, rapidapi |-> FALSE]
    /\ SearchInit
    /\ DedupIdle
    /\ ResolveIdle
    /\ RestIdle
    /\ sargs \in ScoreArgs
    /\ sresult = NONE
    /\ sfirst = NoFirst
    /\ scalls = 0

\* one call of the function with the arguments at hand
CalculateScore ==
    /\ scalls < MaxCalls
    /\ sresult' = CalculateEngagementScore(sargs.likes, sargs.comments, sargs.shares,
                                           sargs.views, sargs.followers)
    /\ sfirst' = IF scalls = 0 THEN [value |-> sresult', at |-> now] ELSE sfirst
    /\ scalls' = scalls + 1
    /\ UNCHANGED <<regVars, searchVars, dedupVars, resolveVars, restVars, sargs>>

ScoreNext == CalculateScore \/ Tick \/ SearchOtherGetKey

SpecScore == ScoreInit /\ [][ScoreNext]_vars

(***************************************************************************)
(* Part 6 (SpecPipeline): find_viral_images from the return of             *)
(* search_images on: one process_result task per result of                 *)
(* search_results[:max_images], all under Semaphore(3), then gather, the   *)
(* filter, the sort and save_results.                                      *)
(***************************************************************************)
\* _determine_platform(url), on the corpus
DeterminePlatform(url) ==
    CASE url \in {InstaPost, InstaPostPadded, InstaMedia, InstaReel, InstaProfile} -> "instagram"
      [] url \in {FbPost, FbPostPadded, FbPostMedia, FbPhotos} -> "facebook"
      [] url \in {YoutubeWatch, YoutubeJpg} -> "youtube"
      [] url = TiktokVideo -> "tiktok"
      [] OTHER -> "web"

\* the post URLs search_images can return, in the order they are found in
FoundOrder == <<FbPost, InstaReel, LinkedinFeed, YoutubeWatch, InstaPost, TiktokVideo>>

RECURSIVE Pick(_, _)
Pick(chosen, k) ==
    IF k > Len(FoundOrder)
    THEN <<>>
    ELSE (IF k \in chosen THEN <<FoundOrder[k]>> ELSE <<>>) \o Pick(chosen, k + 1)

\* what search_images can return: results with distinct, valid page_urls
FoundLists ==
    { ProviderResults(Pick(chosen, 1)) :
        chosen \in { c \in SUBSET (1..Len(FoundOrder)) :
                       /\ Cardinality(c) <= MaxFound
                       /\ \A k \in c : IsValidSocialUrl(FoundOrder[k]) } }

\* random.randint of the four _estimate_*_from_images: the ends of the ranges
RandomDraws ==
    { [likes |-> 10, comments |-> 2, shares |-> 1, views |-> 100],
      [likes |-> 200, comments |-> 30, shares |-> 15, views |-> 1000] }

\* the record as the dict process_result reads: the numeric keys it holds.
\* A marketing record holds likes, comments, shares and views, here for one
\* extracted image; the other records hold the *_estimate keys.
AsDict(rec, draw) ==
    IF "likes" \in DOMAIN rec.by
    THEN [k \in {"likes", "comments", "shares", "views"} |->
            CASE k = "likes" -> 100 + 50 + draw.likes
              [] k = "comments" -> 10 + 5 + draw.comments
              [] k = "shares" -> 5 + 2 + draw.shares
              [] k = "views" -> 1000 + 200 + draw.views]
    ELSE [k \in {"engagement_score", "views_estimate", "likes_estimate",
                 "comments_estimate", "shares_estimate"} |-> rec[k]]

\* what analyze_post_engagement can return for the URL: the record of the
\* first strategy of the chain that returned data, or the estimate
Engagements(post_url, platform) ==
    { AsDict(RecordOf(Chain(post_url, platform)[k]), draw) :
        k \in 1..Len(Chain(post_url, platform)), draw \in RandomDraws }
    \cup { AsDict(EstimateEngagementByPlatform(post_url, platform), draw) :
             draw \in RandomDraws }

\* engagement.get(key, default)
Get(engagement, key, default) ==
    IF key \in DOMAIN engagement THEN engagement[key] ELSE default

\* what the download and the page extraction of extract_image_data can do
MediaOutcomes == {"downloaded", "nothing", "exception"}

\* Variant: an exception of the download leaves extract_image_data.
ExtractImageDataRaising(outcome) ==
    CASE outcome = "downloaded" -> "image_path"
      [] outcome = "nothing" -> "None"
      [] outcome = "exception" -> "raised"

\* extract_image_data: every strategy in try/except, None when all fail
ExtractImageData(outcome) ==
    CASE outcome = "downloaded" -> "image_path"
      [] outcome = "nothing" -> "None"
      [] outcome = "exception" -> "None"

\* ViralImage(...), lines 4109-4126
ViralImageOf(result, platform, engagement, extracted_path) ==
    [post_url |-> result.page_url,
     platform |-> platform,
     engagement_score |-> Get(engagement, "engagement_score", 0),
     views_estimate |-> Get(engagement, "views_estimate", 0),
     likes_estimate |-> Get(engagement, "likes_estimate", 0),
     comments_estimate |-> Get(engagement, "comments_estimate", 0),
     shares_estimate |-> Get(engagement, "shares_estimate", 0),
     image_path |-> extracted_path]

NoEngagement == [k \in {} |-> 0]
NoImage == [post_url |-> "", platform |-> "none"]

\* self.config['min_engagement'] (line 122: MIN_ENGAGEMENT of the environment,
\* 0 when unset), here a cutoff that lies between the scores a resolution
\* can yield, so that items fall on either side of it
min_engagement == 35

\* Variant: an item below the cutoff is left out.
ViralityCheckDropping(viral_image) ==
    IF viral_image.engagement_score >= min_engagement
    THEN viral_image
    ELSE NoImage

\* lines 4127-4133: what process_result returns for the item it has built
ViralityCheck(viral_image) ==
    IF viral_image.engagement_score >= min_engagement
    THEN viral_image
    ELSE viral_image

\* Variant: a task for every result, whatever max_images says.
ProcessedAll(found, limit) == found

\* search_results[:self.config['max_images']]
Processed(found, limit) ==
    SubSeq(found, 1, IF Len(found) < limit THEN Len(found) ELSE limit)

Created == [pc |-> "created", engagement |-> NoEngagement, result |-> NoImage]

\* the tasks that are inside `async with semaphore`
Holding == { i \in DOMAIN ptask : ptask[i].pc \in {"resolving", "extracting"} }

\* Variant: the semaphore lets every task in.
SemaphoreFreeAlways(holding) == TRUE

\* asyncio.Semaphore(max_concurrent): acquire goes through while a permit is left
SemaphoreFree(holding) == Cardinality(holding) < max_concurrent

\* Variant: list.sort without reverse=True.
RECURSIVE SortByScoreAscending(_)
SortByScoreAscending(list) ==
    IF list = <<>>
    THEN <<>>
    ELSE LET rest == SortByScoreAscending(Tail(list))
             before == SelectSeq(rest, LAMBDA x : x.engagement_score < Head(list).engagement_score)
             after == SelectSeq(rest, LAMBDA x : x.engagement_score >= Head(list).engagement_score)
         IN before \o <<Head(list)>> \o after

\* viral_images.sort(key=lambda x: x.engagement_score, reverse=True): stable
RECURSIVE SortByScore(_)
SortByScore(list) ==
    IF list = <<>>
    THEN <<>>
    ELSE LET rest == SortByScore(Tail(list))
             before == SelectSeq(rest, LAMBDA x : x.engagement_score > Head(list).engagement_score)
             after == SelectSeq(rest, LAMBDA x : x.engagement_score <= Head(list).engagement_score)
         IN before \o <<Head(list)>> \o after

RECURSIVE SumScores(_)
SumScores(list) ==
    IF list = <<>> THEN 0 ELSE Head(list).engagement_score + SumScores(Tail(list))

\* save_results: the file it writes, as far as the metrics go
Report(images) ==
    [total_content |-> Len(images),
     total_engagement_score |-> SumScores(images),
     top_performers |-> SubSeq(images, 1, IF Len(images) < 5 THEN Len(images) ELSE 5)]

\* for result in processed_results: if isinstance(result, ViralImage): append
Gathered(tasks) ==
    LET all == [i \in DOMAIN tasks |-> tasks[i].result]
    IN SelectSeq(all, LAMBDA x : x # NoImage)

PipelineInit ==
    /\ api_keys = [serper |-> 0, rapidapi |-> 0, apify |-> 0]
    /\ RegInit
    /\ config = [serper |-> FALSE, google |-> FALSE, rapidapi |-> FALSE]
    /\ SearchInit
    /\ DedupIdle
    /\ ResolveIdle
    /\ ScoreIdle
    /\ max_images \in {2, MaxFound}
    /\ search_results \in FoundLists
    /\ fpc = "searched"
    /\ ptask = <<>>
    /\ viral_images = <<>>
    /\ output_file = "none"
    /\ reports = <<>>
    /\ SyncIdle
    /\ RoundIdle
    /\ ParseIdle

\* lines 4078-4081 and 4138-4141: nothing found, or one task per result
Dispatch ==
    /\ fpc = "searched"
    /\ IF search_results = <<>>
       THEN /\ fpc' = "returned"
            /\ output_file' = ""
            /\ UNCHANGED ptask
       ELSE /\ ptask' = [i \in 1..Len(Processed(search_results, max_images)) |-> Created]
            /\ fpc' = "gather"
            /\ UNCHANGED output_file
    /\ UNCHANGED <<regVars, searchVars, dedupVars, resolveVars, scoreVars, syncVars, roundVars, parseVars,
                   max_images, search_results, viral_images, reports>>

\* async with semaphore: ... up to the await of analyze_post_engagement
Acquire(i) ==
    /\ fpc = "gather"
    /\ i \in DOMAIN ptask
    /\ ptask[i].pc = "created"
    /\ SemaphoreFree(Holding)
    /\ ptask' = [ptask EXCEPT ![i].pc =
                    IF search_results[i].page_url = "" THEN "done" ELSE "resolving"]
    /\ UNCHANGED <<regVars, searchVars, dedupVars, resolveVars, scoreVars, syncVars, roundVars, parseVars,
                   max_images, search_results, fpc, viral_images, output_file, reports>>

\* analyze_post_engagement returns
ResolveDone(i) ==
    /\ i \in DOMAIN ptask
    /\ ptask[i].pc = "resolving"
    /\ \E e \in Engagements(search_results[i].page_url,
                            DeterminePlatform(search_results[i].page_url)) :
         ptask' = [ptask EXCEPT ![i].pc = "extracting", ![i].engagement = e]
    /\ UNCHANGED <<regVars, searchVars, dedupVars, resolveVars, scoreVars, syncVars, roundVars, parseVars,
                   max_images, search_results, fpc, viral_images, output_file, reports>>

\* extract_image_data returns, the ViralImage is built and the task ends;
\* except Exception: return None
ExtractDone(i) ==
    /\ i \in DOMAIN ptask
    /\ ptask[i].pc = "extracting"
    /\ \E outcome \in MediaOutcomes :
         LET extracted_path == ExtractImageData(outcome) IN
           ptask' = [ptask EXCEPT
                       ![i].pc = "done",
                       ![i].result =
                          IF extracted_path = "raised"
                          THEN NoImage
                          ELSE ViralityCheck(
                                 ViralImageOf(search_results[i],
                                              DeterminePlatform(search_results[i].page_url),
                                              ptask[i].engagement, extracted_path))]
    /\ UNCHANGED <<regVars, searchVars, dedupVars, resolveVars, scoreVars, syncVars, roundVars, parseVars,
                   max_images, search_results, fpc, viral_images, output_file, reports>>

\* gather has every task: filter, sort, save_results, return
Finish ==
    /\ fpc = "gather"
    /\ \A i \in DOMAIN ptask : ptask[i].pc = "done"
    /\ viral_images' = SortByScore(Gathered(ptask))
    /\ reports' = Append(reports, Report(viral_images'))
    /\ output_file' = "viral_results.json"
    /\ fpc' = "returned"
    /\ UNCHANGED <<regVars, searchVars, dedupVars, resolveVars, scoreVars, syncVars, roundVars, parseVars,
                   max_images, search_results, ptask>>

PipelineNext ==
    \/ Dispatch
    \/ \E i \in 1..MaxFound : Acquire(i)
    \/ \E i \in 1..MaxFound : ResolveDone(i)
    \/ \E i \in 1..MaxFound : ExtractDone(i)
    \/ Finish

SpecPipeline == PipelineInit /\ [][PipelineNext]_vars

(***************************************************************************)
(* Part 7 (SpecSync): find_viral_images_sync.  Called with an event loop   *)
(* running, it runs find_viral_images on a loop of its own in a worker     *)
(* thread and waits for it with future.result(timeout=300), inside         *)
(* `with ThreadPoolExecutor()`, whose exit is shutdown(wait=True).  With   *)
(* no loop running it is asyncio.run, with no timeout.                     *)
(***************************************************************************)
SyncInit ==
    /\ api_keys = [serper |-> 0, rapidapi |-> 0, apify |-> 0]
    /\ RegInit
    /\ config = [serper |-> FALSE, google |-> FALSE, rapidapi |-> FALSE]
    /\ SearchInit
    /\ DedupIdle
    /\ ResolveIdle
    /\ ScoreIdle
    /\ max_images = MaxFound
    /\ search_results \in { l \in FoundLists : Len(l) <= MaxSyncFound }
    /\ fpc = "searched"
    /\ ptask = <<>>
    /\ viral_images = <<>>
    /\ output_file = "none"
    /\ reports = <<>>
    /\ wmode \in {"thread", "run"}
    /\ wpc = "waiting"
    /\ wexpired = FALSE
    /\ at_expiry = <<>>
    /\ wresult = <<>>
    /\ RoundIdle
    /\ ParseIdle

\* future.result(timeout=300) raises TimeoutError while the run goes on in
\* its thread; the exit of the with block then waits for the thread
Expire ==
    /\ wmode = "thread"
    /\ wpc = "waiting"
    /\ fpc # "returned"
    /\ wpc' = "expired"
    /\ wexpired' = TRUE
    /\ at_expiry' = Gathered(ptask)
    /\ UNCHANGED <<regVars, searchVars, dedupVars, resolveVars, scoreVars, pipeVars,
                   roundVars, parseVars, wmode, wresult>>

\* return future.result(...) / return asyncio.run(...)
ReturnResult ==
    /\ wpc = "waiting"
    /\ fpc = "returned"
    /\ wresult' = viral_images
    /\ wpc' = "returned"
    /\ UNCHANGED <<regVars, searchVars, dedupVars, resolveVars, scoreVars, pipeVars,
                   roundVars, parseVars, wmode, wexpired, at_expiry>>

\* except Exception: save_results([], query); return [], empty_result_file --
\* reached once the worker thread has ended
ReturnEmpty ==
    /\ wpc = "expired"
    /\ fpc = "returned"
    /\ reports' = Append(reports, Report(<<>>))
    /\ wresult' = <<>>
    /\ wpc' = "returned"
    /\ UNCHANGED <<regVars, searchVars, dedupVars, resolveVars, scoreVars,
                   max_images, search_results, fpc, ptask, viral_images, output_file,
                   roundVars, parseVars, wmode, wexpired, at_expiry>>

SyncNext ==
    \/ PipelineNext
    \/ Expire
    \/ ReturnResult
    \/ ReturnEmpty

SpecSync == SyncInit /\ [][SyncNext]_vars

(***************************************************************************)
(* Part 8 (SpecRound): the provider sweep of search_images again, now with *)
(* the call and the return of a provider as two steps: every provider is   *)
(* called with `await`, so the sweep stands still until the call returns.  *)
(***************************************************************************)
\* the provider the sweep turns to after this one
SweepAfter(at, q) ==
    CASE at = "serper" -> [at |-> "google_cse", q |-> q]
      [] at = "google_cse" -> IF q = NumQueries
                              THEN [at |-> "rapidapi", q |-> q]
                              ELSE [at |-> "serper", q |-> q + 1]
      [] OTHER -> [at |-> AfterProvider(at), q |-> q]

\* the conditions of lines 272, 280, 291, 316 can let the call be made
MayCall(at, cfg) ==
    CASE at = "serper" -> cfg.serper
      [] at = "google_cse" -> cfg.google
      [] at = "rapidapi" -> cfg.rapidapi
      [] OTHER -> TRUE

\* the conditions can let the provider be passed over: no key set, three
\* results of Serper at hand, fifteen results gathered
MaySkip(at, cfg) ==
    CASE at = "serper" -> ~cfg.serper
      [] at = "google_cse" -> ~cfg.google \/ cfg.serper
      [] at = "rapidapi" -> ~cfg.rapidapi
      [] at = "alternative" -> TRUE
      [] OTHER -> FALSE

\* Variant: the call is started as a task and the sweep goes on at once.
AfterLaunchTask(pc) == pc

\* x = await provider(...): the sweep waits for the call
AfterLaunch(pc) == "awaiting"

RoundInit ==
    /\ api_keys = [serper |-> 0, rapidapi |-> 0, apify |-> 0]
    /\ RegInit
    /\ config = [serper |-> FALSE, google |-> FALSE, rapidapi |-> FALSE]
    /\ SearchInit
    /\ DedupIdle
    /\ ResolveIdle
    /\ ScoreIdle
    /\ PipeIdle
    /\ SyncIdle
    /\ ParseIdle
    /\ sweep_config \in SearchConfigs
    /\ sweep_q = 1
    /\ sweep_at = "serper"
    /\ sweep_pc = "ready"
    /\ in_flight = 0

\* the provider is called
SweepLaunch ==
    /\ sweep_pc = "ready"
    /\ sweep_at # "done"
    /\ MayCall(sweep_at, sweep_config)
    /\ in_flight' = in_flight + 1
    /\ sweep_pc' = AfterLaunch(sweep_pc)
    /\ UNCHANGED <<regVars, searchVars, dedupVars, resolveVars, scoreVars, pipeVars,
                   syncVars, parseVars, sweep_config, sweep_q, sweep_at>>

\* the provider is passed over
SweepSkip ==
    /\ sweep_pc = "ready"
    /\ sweep_at # "done"
    /\ MaySkip(sweep_at, sweep_config)
    /\ sweep_at' = SweepAfter(sweep_at, sweep_q).at
    /\ sweep_q' = SweepAfter(sweep_at, sweep_q).q
    /\ UNCHANGED <<regVars, searchVars, dedupVars, resolveVars, scoreVars, pipeVars,
                   syncVars, parseVars, sweep_config, sweep_pc, in_flight>>

\* the call returns or raises, and the sweep goes on to the next provider
SweepReturn ==
    /\ sweep_pc = "awaiting"
    /\ in_flight > 0
    /\ in_flight' = in_flight - 1
    /\ sweep_at' = SweepAfter(sweep_at, sweep_q).at
    /\ sweep_q' = SweepAfter(sweep_at, sweep_q).q
    /\ sweep_pc' = "ready"
    /\ UNCHANGED <<regVars, searchVars, dedupVars, resolveVars, scoreVars, pipeVars,
                   syncVars, parseVars, sweep_config>>

RoundNext == SweepLaunch \/ SweepSkip \/ SweepReturn

SpecRound == RoundInit /\ [][RoundNext]_vars

(***************************************************************************)
(* Part 9 (SpecParse): _extract_number_from_text.  A text is the list of   *)
(* its characters; re.search is the leftmost match, \d+ the longest run    *)
(* of digits that lets the rest of the pattern match.                      *)
(***************************************************************************)
Digits == {"0", "1", "2", "3", "4", "5", "6", "7", "8", "9"}

DigitValue(c) ==
    CASE c = "0" -> 0 [] c = "1" -> 1 [] c = "2" -> 2 [] c = "3" -> 3 [] c = "4" -> 4
      [] c = "5" -> 5 [] c = "6" -> 6 [] c = "7" -> 7 [] c = "8" -> 8 [] c = "9" -> 9

\* str.lower() on the letters the texts hold in upper case
Lower(c) ==
    CASE c = "K" -> "k"
      [] c = "M" -> "m"
      [] OTHER -> c

\* text.lower().replace(' ', '').replace('.', '').replace(',', '')
Cleaned(text) ==
    SelectSeq([k \in DOMAIN text |-> Lower(text[k])], LAMBDA c : c \notin {" ", ".", ","})

\* the texts of the examples
Text125k == <<"1", "2", ".", "5", "k", " ", "c", "u", "r", "t", "i", "d", "a", "s">>
Text3Comentarios == <<"3", " ", "c", "o", "m", "e", "n", "t", "a", "r", "i", "o", "s">>
TextMuitas == <<"m", "u", "i", "t", "a", "s">>
Text12Virgula5Mil == <<"1", "2", ",", "5", " ", "m", "i", "l">>

Alphabet == {"0", "1", ".", ",", "k", "K", "m", "i", "l", " "}

Texts ==
    {Text125k, Text3Comentarios, TextMuitas, Text12Virgula5Mil}
    \cup UNION { [1..n -> Alphabet] : n \in 0..MaxText }

\* (\d+)suffix matches t[i..j] followed by the suffix
MatchAt(t, i, j, suffix) ==
    /\ i <= j
    /\ \A k \in i..j : t[k] \in Digits
    /\ j + Len(suffix) <= Len(t)
    /\ SubSeq(t, j + 1, j + Len(suffix)) = suffix

\* re.search(pattern, text).group(1), <<>> when there is no match
Group1(t, suffix) ==
    LET starts == { i \in DOMAIN t : \E j \in DOMAIN t : MatchAt(t, i, j, suffix) }
    IN IF starts = {}
       THEN <<>>
       ELSE LET i == CHOOSE a \in starts : \A b \in starts : a <= b
                j == CHOOSE a \in DOMAIN t :
                       /\ MatchAt(t, i, a, suffix)
                       /\ \A b \in DOMAIN t : MatchAt(t, i, b, suffix) => b <= a
            IN SubSeq(t, i, j)

\* float(match.group(1)) for a run of digits
RECURSIVE FloatOf(_)
FloatOf(digits) ==
    IF digits = <<>>
    THEN 0
    ELSE FloatOf(SubSeq(digits, 1, Len(digits) - 1)) * 10 + DigitValue(digits[Len(digits)])

\* patterns (3737-3744), in list order
NumberPatterns ==
    << [suffix |-> <<"m", "i", "l">>, multiplier |-> 1000],
       [suffix |-> <<"k">>, multiplier |-> 1000],
       [suffix |-> <<"m">>, multiplier |-> 1000000],
       [suffix |-> <<"m", "i">>, multiplier |-> 1000000],
       [suffix |-> <<"b">>, multiplier |-> 1000000000],
       [suffix |-> <<>>, multiplier |-> 1] >>

\* for pattern, multiplier in patterns: the first that matches gives the value
RECURSIVE FirstMatch(_, _)
FirstMatch(t, n) ==
    IF n > Len(NumberPatterns)
    THEN 0
    ELSE IF Group1(t, NumberPatterns[n].suffix) # <<>>
         THEN FloatOf(Group1(t, NumberPatterns[n].suffix)) * NumberPatterns[n].multiplier
         ELSE FirstMatch(t, n + 1)

\* _extract_number_from_text(text)
ExtractNumberFromText(text) ==
    IF text = <<>> THEN 0 ELSE FirstMatch(Cleaned(text), 1)

ParseInit ==
    /\ api_keys = [serper |-> 0, rapidapi |-> 0, apify |-> 0]
    /\ RegInit
    /\ config = [serper |-> FALSE, google |-> FALSE, rapidapi |-> FALSE]
    /\ SearchInit
    /\ DedupIdle
    /\ ResolveIdle
    /\ ScoreIdle
    /\ PipeIdle
    /\ SyncIdle
    /\ RoundIdle
    /\ ptext \in Texts
    /\ presult = NONE

ParseText ==
    /\ presult = NONE
    /\ presult' = ExtractNumberFromText(ptext)
    /\ UNCHANGED <<regVars, searchVars, dedupVars, resolveVars, scoreVars, pipeVars,
                   syncVars, roundVars, ptext>>

ParseNext == ParseText

SpecParse == ParseInit /\ [][ParseNext]_vars

(***************************************************************************)
(* Properties of the key registry, read off the history variables: lastRet *)
(* is the _get_next_api_key call of the step just taken, lastFail the      *)
(* failure that step handled, lastClear the identifier it re-enabled.      *)
(***************************************************************************)
Blacklisted(service, index) == <<service, index>> \in failed_apis

AllBlacklisted(service) == \A i \in Slots(service) : Blacklisted(service, i)

PendingFor(service, index) ==
    { tm \in BagToSet(timers) : tm.svc = service /\ tm.idx = index }

\* C1: a _get_next_api_key call never returns a slot whose identifier is in
\* failed_apis at the moment of the call.
C1_NeverReturnsBlacklisted ==
    lastRet.slot # NONE => ~Blacklisted(lastRet.svc, lastRet.slot)

\* a call that began its scan on a blacklisted slot and returned another one
C1_Witness ==
    /\ lastRet.slot # NONE
    /\ Blacklisted(lastRet.svc, lastRet.start)

\* C2: a slot is not returned while 300 s have not passed since a failure
\* report against it, so no clear_failure thread of that slot is still asleep
\* when the slot is returned.
C2_CooldownFromLatestFailure ==
    lastRet.slot # NONE =>
        \A tm \in PendingFor(lastRet.svc, lastRet.slot) : tm.wake <= now

\* C3: every blacklisted slot is eventually taken out of failed_apis, and is
\* then selectable again.
C3_EventuallySelectable ==
    \A id \in Ids : (id \in failed_apis) ~> (id \notin failed_apis)

\* a clear_failure thread has just re-enabled a slot, and a call whose scan
\* starts there returns it
C3_Witness ==
    /\ lastClear.svc # "none"
    /\ ~Blacklisted(lastClear.svc, lastClear.idx)
    /\ GetNextApiKey(lastClear.svc, failed_apis, lastClear.idx).slot = lastClear.idx

\* C4: the slot a failure is recorded against is the slot whose key the failed
\* call carried, whatever other calls ran in between.
C4_MarkedIsUsed ==
    lastFail.svc # "none" => lastFail.marked = lastFail.used

\* C5: _get_next_api_key returns None exactly when the service has no keys or
\* every one of its slots is blacklisted; so does every call actually made.
C5_NotAvailableIff ==
    /\ \A s \in Services :
         (GetNextApiKey(s, failed_apis, current_api_index[s]).slot = NONE)
             <=> (api_keys[s] = 0 \/ AllBlacklisted(s))
    /\ lastRet.svc # "none" =>
         ((lastRet.slot = NONE) <=> AllBlacklisted(lastRet.svc))

\* a call made with every slot of the service blacklisted came back empty
C5_Witness ==
    /\ lastRet.svc # "none"
    /\ lastRet.slot = NONE
    /\ api_keys[lastRet.svc] > 0
    /\ AllBlacklisted(lastRet.svc)

\* C6 as stated: with no report made yet for the service every slot stands
\* equal, and the tie goes to the lowest index, slot 0.
C6_LowestIndexOnTie ==
    (/\ lastRet.slot # NONE
     /\ now < Cooldown
     /\ \A i \in Slots(lastRet.svc) : PendingFor(lastRet.svc, i) = {})
        => lastRet.slot = 0

\* the non-blacklisted slot nearest to position start in rotation order
CyclicFirst(service, start) ==
    LET n == api_keys[service]
        free == { k \in Slots(service) : ~Blacklisted(service, k) }
    IN CHOOSE k \in free : \A j \in free : (k - start) % n <= (j - start) % n

\* C6 amended: the call returns the first non-blacklisted slot in rotation
\* order, counted from the position the previous call left behind.
C6_FirstFreeInRotation ==
    lastRet.slot # NONE => lastRet.slot = CyclicFirst(lastRet.svc, lastRet.start)

\* a call that wrapped round past the end of the key list
C6_Witness ==
    /\ lastRet.slot # NONE
    /\ lastRet.slot < lastRet.start
    /\ Blacklisted(lastRet.svc, lastRet.start)

C9_NoRetryInRequest ==
    \A t \in Tasks : task[t].calls <= 1

\* C9 amended: a request sends at most len(keys) calls; a call that follows
\* a failure carries the key returned by the _get_next_api_key call made
\* after the failure was recorded, a slot that is not blacklisted.
C9_RetryWithNextKey ==
    \A t \in Tasks :
        /\ task[t].comp # "none" => task[t].calls <= api_keys[task[t].comp]
        /\ (lastFail.by = t /\ task[t].pc = "inflight") =>
              /\ lastRet.svc = task[t].comp
              /\ lastRet.slot = task[t].used
              /\ ~Blacklisted(task[t].comp, task[t].used)

\* a request on its second call, right after its first one failed
C9_Witness ==
    \E t \in Tasks :
        /\ lastFail.by = t
        /\ task[t].pc = "inflight"
        /\ task[t].calls = 2

(***************************************************************************)
(* Properties of the provider sweep of search_images.                      *)
(***************************************************************************)
\* C10: a provider that raises is taken as having returned nothing: the
\* results gathered are exactly what the calls that returned gave, and every
\* provider the sweep is due to call is still called.
C10_FailureIsolation ==
    /\ all_results + results = returned
    /\ config.serper =>
         called["serper"] = (qi - 1) + (IF spc = "google_cse" THEN 1 ELSE 0)
    /\ spc = "done" =>
         /\ qi = NumQueries + 1
         /\ called["youtube"] = 1
         /\ called["facebook"] = 1
         /\ config.rapidapi => called["rapidapi"] = 1
         /\ called["alternative"] = 0 => all_results >= AlternativeBelow

\* a sweep that ended with results although a provider raised on the way
C10_Witness ==
    /\ spc = "done"
    /\ raised
    /\ all_results > 0
    /\ called["alternative"] = 1

(***************************************************************************)
(* Properties of the tail of search_images.                                *)
(***************************************************************************)
Key(result) == Strip(result.page_url)

\* the positions of list that hold the first result of their trimmed page_url
FirstOfKey(list, k) == \A m \in 1..(k - 1) : Key(list[m]) # Key(list[k])

\* C11: search_images returns no more results than the provider calls that
\* succeeded have returned, and returns nothing but results of those calls.
C11_OutputWithinProvided ==
    dpc = "done" =>
        /\ Len(unique_results) <= Len(provided)
        /\ SeqRange(unique_results) \subseteq SeqRange(provided)

\* the direct extractors have added results, and some result is returned
C11_Witness ==
    /\ dpc = "done"
    /\ Len(aggregated) > Len(provided)
    /\ Len(unique_results) = Len(provided)
    /\ Len(provided) > 1

\* C12: no two returned results have the same trimmed page_url; a returned
\* result is the first of the aggregated list with its trimmed page_url; the
\* returned results are in the order of the aggregated list.
C12_FirstOccurrenceWins ==
    dpc = "done" =>
        /\ \A i, j \in DOMAIN unique_results :
             i # j => Key(unique_results[i]) # Key(unique_results[j])
        /\ \A i \in DOMAIN unique_results :
             \E k \in DOMAIN aggregated :
                 /\ aggregated[k] = unique_results[i]
                 /\ FirstOfKey(aggregated, k)
        /\ \A i, j \in DOMAIN unique_results :
             i < j => unique_results[i].image_url < unique_results[j].image_url

\* two results of one page, written differently, collapsed to the first
C12_Witness ==
    /\ dpc = "done"
    /\ \E i, j \in DOMAIN aggregated :
         /\ i < j
         /\ Key(aggregated[i]) = Key(aggregated[j])
         /\ aggregated[i].page_url # aggregated[j].page_url
         /\ aggregated[i] \in SeqRange(unique_results)
         /\ aggregated[j] \notin SeqRange(unique_results)

\* C13: every returned result has a non-empty trimmed page_url that the
\* validator accepts, and every result of the aggregated list that has one
\* and is the first with it is returned.
C13_ValidAndComplete ==
    dpc = "done" =>
        /\ \A r \in SeqRange(unique_results) :
             Key(r) # "" /\ IsValidSocialUrl(Key(r))
        /\ \A k \in DOMAIN aggregated :
             (/\ Key(aggregated[k]) # ""
              /\ IsValidSocialUrl(Key(aggregated[k]))
              /\ FirstOfKey(aggregated, k))
                 => aggregated[k] \in SeqRange(unique_results)

\* a blank page_url and a rejected one were dropped, a valid one was kept
C13_Witness ==
    /\ dpc = "done"
    /\ \E r \in SeqRange(aggregated) : Key(r) = "" /\ r.page_url # ""
    /\ \E r \in SeqRange(aggregated) : Key(r) # "" /\ ~IsValidSocialUrl(Key(r))
    /\ Len(unique_results) = 1

\* C14: the validator accepts a URL exactly when no invalid pattern and at
\* least one valid pattern is found in it, so a URL in which both kinds are
\* found is rejected and never returned.
C14_DenyListFirst ==
    /\ \A r \in SeqRange(aggregated) :
         IsValidSocialUrl(Key(r))
             <=> (InvalidHits(Key(r)) = {} /\ ValidHits(Key(r)) # {})
    /\ \A r \in SeqRange(unique_results) : InvalidHits(Key(r)) = {}

\* a URL with a post shape and a denied parameter was gathered and dropped
C14_Witness ==
    /\ dpc = "done"
    /\ \E r \in SeqRange(aggregated) :
         /\ InvalidHits(Key(r)) # {}
         /\ ValidHits(Key(r)) # {}
         /\ r \notin SeqRange(unique_results)
    /\ unique_results # <<>>

(***************************************************************************)
(* Properties of analyze_post_engagement.                                  *)
(***************************************************************************)
TheChain == Chain(resolve_url, resolve_platform)

Raised(attempt) == attempt.outcome \in {"exception", "timeout"}

\* C15: whatever the URL, the platform and the outcomes of the strategies,
\* a call ends, RESOLVED or ESTIMATED, with a record that is not empty.
C15_EndsWithRecord ==
    (rpc = "trying") ~>
        (/\ rpc = "done"
         /\ rstatus \in {"RESOLVED", "ESTIMATED"}
         /\ DOMAIN record.by # {})

\* every strategy of the longest chain yielded nothing and the estimate was returned
C15_Witness ==
    /\ rpc = "done"
    /\ rstatus = "ESTIMATED"
    /\ Len(attempts) = 3
    /\ record.engagement_score > 0

\* C16: the strategies are called in the order of the chain, each at most
\* once, the next one only after the one before yielded nothing, none after
\* one has returned data; the end of the chain leads to the estimate.
C16_FixedOrderNoRetry ==
    /\ Len(attempts) <= Len(TheChain)
    /\ \A i \in DOMAIN attempts : attempts[i].strategy = TheChain[i]
    /\ \A i \in DOMAIN attempts : i < Len(attempts) => attempts[i].outcome # "data"
    /\ ri \in {Len(attempts), Len(attempts) + 1}
    /\ rstatus = "RESOLVED" =>
         (rpc = "done" /\ attempts # <<>> /\ attempts[Len(attempts)].outcome = "data")
    /\ rstatus = "ESTIMATED" =>
         (/\ rpc = "done"
          /\ Len(attempts) = Len(TheChain)
          /\ \A i \in DOMAIN attempts : attempts[i].outcome # "data")

\* the third strategy of a chain returned data after the first two had not
C16_Witness ==
    /\ rstatus = "RESOLVED"
    /\ Len(attempts) = 3
    /\ attempts[1].outcome = "empty"
    /\ attempts[2].outcome = "empty"

\* C17: every value of the returned record comes from the output of one and
\* the same strategy: the one that returned data, or the estimate.
C17_OneStrategyPerRecord ==
    rpc = "done" =>
        /\ \A k \in DOMAIN record.by : record.by[k] = record.source
        /\ rstatus = "RESOLVED" => record.source = attempts[Len(attempts)].strategy
        /\ rstatus = "ESTIMATED" => record.source = "estimate"

\* the second strategy returned data after the first had been tried
C17_Witness ==
    /\ rpc = "done"
    /\ Len(attempts) = 2
    /\ record.source = "apify"
    /\ DOMAIN record.by = EstimateKeys

\* C18: a strategy that raises or times out is a failed step and no more:
\* the call goes on to the next strategy, or to the estimate, and raises
\* nothing itself.
C18_ExceptionIsStepFailure ==
    /\ rpc # "raised"
    /\ \A i \in DOMAIN attempts :
         Raised(attempts[i]) =>
            /\ ri > i
            /\ rpc = "done" =>
                 IF i < Len(TheChain) THEN Len(attempts) > i ELSE rstatus = "ESTIMATED"

\* one strategy raised, the next timed out, and the call still returned a record
C18_Witness ==
    /\ rpc = "done"
    /\ Len(attempts) >= 2
    /\ attempts[1].outcome = "exception"
    /\ attempts[2].outcome = "timeout"
    /\ DOMAIN record.by # {}

(***************************************************************************)
(* Properties of _calculate_engagement_score.                              *)
(***************************************************************************)
\* the score of the formula with weights 8 and 15, fallback 0.1, bonuses 1.5,
\* 1.2 and 1.3 and floor 0.05, in hundredths
StatedScore(a) ==
    LET weighted == a.likes + (8 * a.comments) + (15 * a.shares)
        rate == IF a.views > 0 THEN [num |-> weighted * 10000, den |-> a.views]
                ELSE IF a.followers > 0 THEN [num |-> weighted * 10000, den |-> a.followers]
                ELSE [num |-> weighted * 10, den |-> 1]
        sized == IF weighted > 500 THEN [num |-> rate.num * 15, den |-> rate.den * 10]
                 ELSE IF weighted > 100 THEN [num |-> rate.num * 12, den |-> rate.den * 10]
                 ELSE rate
        talked == IF 10 * a.comments > a.likes
                  THEN [num |-> sized.num * 13, den |-> sized.den * 10]
                  ELSE sized
        floored == IF talked.num < 5 * weighted * talked.den
                   THEN [num |-> 5 * weighted, den |-> 1]
                   ELSE talked
    IN RoundHundredths(floored)

ExampleArgs ==
    [likes |-> 600, comments |-> 50, shares |-> 20, views |-> 0, followers |-> 1000]

\* C19 as stated: the score is that of the formula with weights 8 and 15,
\* bonuses 1.5 / 1.2 and 1.3 and floor 0.05; score(600, 50, 20, 0, 1000) = 195.0.
C19_StatedFormula ==
    sresult # NONE =>
        /\ sresult = StatedScore(sargs)
        /\ sargs = ExampleArgs => sresult = 19500

\* whether r hundredths is a nearest hundredth of 100 * num / den
Nearest(r, num, den) ==
    \A d \in {r * den - num, num - r * den} : 2 * d <= den

\* C19 amended: with weighted = likes + 5*comments + 10*shares, the score is
\* weighted/views*100 if views > 0, else weighted/followers*100 if
\* followers > 0, else weighted; times 1.2 if weighted > 100; the larger of
\* that and 0.1*weighted, to the nearest hundredth.
\* score(600, 50, 20, 0, 1000) = 126.0.
C19_CodeFormula ==
    sresult # NONE =>
        LET w == sargs.likes + 5 * sargs.comments + 10 * sargs.shares
            den == IF sargs.views > 0 THEN sargs.views
                   ELSE IF sargs.followers > 0 THEN sargs.followers
                   ELSE 100
            bonus == IF w > 100 THEN 12 ELSE 10
        IN /\ IF w * 10000 * bonus >= w * 10 * den * 10
              THEN Nearest(sresult, w * 10000 * bonus, den * 10)
              ELSE sresult = w * 10
           /\ sargs = ExampleArgs => sresult = 12600

\* the example has been scored
C19_Witness ==
    /\ sargs = ExampleArgs
    /\ sresult = 12600

TaskOf(post_url) ==
    CHOOSE i \in DOMAIN ptask : search_results[i].page_url = post_url

\* C21: the list find_viral_images returns is in non-increasing order of
\* engagement_score.
C21_SortedDescending ==
    fpc = "returned" =>
        \A i, j \in DOMAIN viral_images :
            i < j => viral_images[i].engagement_score >= viral_images[j].engagement_score

\* a returned list of three scores or more that the sort had to reorder
C21_Witness ==
    /\ fpc = "returned"
    /\ Cardinality({ viral_images[i].engagement_score : i \in DOMAIN viral_images }) >= 3
    /\ viral_images # Gathered(ptask)

\* C22: every result handed to process_result is in the returned list exactly
\* once, whichever strategies of the resolution and of the media extraction
\* failed: with the estimate for a record, and without an image.
C22_OneItemPerProcessedResult ==
    fpc = "returned" =>
        /\ Len(viral_images) = Len(ptask)
        /\ \A i \in DOMAIN ptask :
             Cardinality({ k \in DOMAIN viral_images :
                             viral_images[k].post_url = search_results[i].page_url }) = 1

\* a returned item whose strategy failed and whose image could not be had
C22_Witness ==
    /\ fpc = "returned"
    /\ \E k \in DOMAIN viral_images :
         LET item == viral_images[k]
             estimate == EstimateEngagementByPlatform(item.post_url, item.platform)
         IN /\ Chain(item.post_url, item.platform) # <<>>
            /\ item.engagement_score = estimate.engagement_score
            /\ item.likes_estimate = estimate.likes_estimate
            /\ item.image_path = "None"

\* the count the record holds under either of its key names
CountOf(engagement, name) ==
    IF name \in DOMAIN engagement
    THEN engagement[name]
    ELSE CASE name = "likes" -> engagement["likes_estimate"]
           [] name = "comments" -> engagement["comments_estimate"]
           [] name = "shares" -> engagement["shares_estimate"]
           [] name = "views" -> engagement["views_estimate"]

\* C23 as stated: the likes, comments, shares and views of every returned
\* item are the counts of the record analyze_post_engagement returned for
\* its URL, whichever strategy produced the record.
C23_CountsOfTheRecord ==
    fpc = "returned" =>
        \A k \in DOMAIN viral_images :
            LET item == viral_images[k]
                engagement == ptask[TaskOf(item.post_url)].engagement
            IN /\ item.likes_estimate = CountOf(engagement, "likes")
               /\ item.comments_estimate = CountOf(engagement, "comments")
               /\ item.shares_estimate = CountOf(engagement, "shares")
               /\ item.views_estimate = CountOf(engagement, "views")

\* C24 as stated: when search_images returns nothing, find_viral_images
\* returns the empty list together with a report of no content.
C24_EmptyReportWhenNothingFound ==
    (fpc = "returned" /\ search_results = <<>>) =>
        /\ viral_images = <<>>
        /\ output_file # ""
        /\ Len(reports) = 1
        /\ reports[1].total_content = 0

\* C26: never more than max_concurrent (3) calls of analyze_post_engagement
\* are in flight, however many results there are and in whatever order the
\* calls return.
C26_ResolutionsWithinGate ==
    Cardinality({ i \in DOMAIN ptask : ptask[i].pc = "resolving" }) <= max_concurrent

\* three resolutions in flight while a fourth task waits at the semaphore
C26_Witness ==
    /\ Cardinality({ i \in DOMAIN ptask : ptask[i].pc = "resolving" }) = max_concurrent
    /\ \E i \in DOMAIN ptask : ptask[i].pc = "created"

\* the platform a post-URL shape of valid_patterns belongs to
PlatformOfShape(p) ==
    CASE p \in {1, 2, 3} -> "instagram"
      [] p \in {4, 5, 6, 7} -> "facebook"
      [] p \in {8, 9} -> "youtube"
      [] p \in {10, 11} -> "linkedin"
      [] p \in {12, 13} -> "tiktok"

\* C30 as stated: a URL _is_valid_social_url accepts is classified as the
\* platform of the post-URL shape it matches, never as web.
C30_ClassifiedAsItsShape ==
    \A i \in DOMAIN ptask :
        LET url == search_results[i].page_url IN
          (IsValidSocialUrl(url) /\ ptask[i].pc = "done") =>
              \A p \in ValidHits(url) : ptask[i].result.platform = PlatformOfShape(p)

(***************************************************************************)
(* Properties of find_viral_images_sync.                                   *)
(***************************************************************************)
\* C25 as stated: when the timeout of the run expires, the items gathered
\* before the expiry are what the run returns; they are not dropped for an
\* empty result.
C25_PartialResultsReturned ==
    (wpc = "returned" /\ wexpired) =>
        \A k \in DOMAIN at_expiry :
            \E m \in DOMAIN wresult : wresult[m].post_url = at_expiry[k].post_url

(***************************************************************************)
(* Properties of the provider calls of search_images.                      *)
(***************************************************************************)
\* C27 as stated: the providers of a round are launched together under one
\* gate that is wider than the resolution gate: a provider is held back
\* while another is in flight only when more than max_concurrent (3) calls
\* are in flight.
C27_LaunchedUnderOneGate ==
    (sweep_pc = "awaiting" /\ sweep_at # "alternative") => in_flight > max_concurrent

\* C27 amended: the providers of a round are called one after the other, at
\* most one call is in flight, and the resolution gate (3) is wider than that.
C27_OneProviderInFlight ==
    /\ in_flight <= 1
    /\ in_flight < max_concurrent

\* the YouTube search is in flight, the Facebook search not yet called
C27_Witness ==
    /\ sweep_at = "youtube"
    /\ sweep_pc = "awaiting"
    /\ in_flight = 1

(***************************************************************************)
(* Properties of the components without configured keys.                   *)
(***************************************************************************)
\* C28: a component whose service has no keys returns at once: the step
\* makes no _get_next_api_key call and leaves the rotation positions and
\* failed_apis as they were; no call is ever made for such a service.
C28_NoKeysNoRegistryCall ==
    [][/\ lastSkip' # NoSkip =>
            /\ api_keys[lastSkip'] = 0
            /\ lastRet' = NoRet
            /\ UNCHANGED <<current_api_index, failed_apis, timers>>
       /\ \A s \in Services :
            api_keys[s] = 0 =>
                /\ lastRet'.svc # s
                /\ \A t \in Tasks : task'[t].comp # s]_vars

\* the Serper search has just returned for want of keys, with a RapidAPI
\* key blacklisted and the rotation moved on
C28_Witness ==
    /\ lastSkip = "serper"
    /\ api_keys["serper"] = 0
    /\ failed_apis # {}
    /\ current_api_index["rapidapi"] = 1

(***************************************************************************)
(* Properties of _extract_number_from_text.                                *)
(***************************************************************************)
\* C29 as stated: digits with a decimal part and a magnitude suffix give
\* floor(float(digits) * multiplier), digits alone their value, anything
\* else 0: "12.5k curtidas" gives 12500, "3 comentarios" 3, "muitas" 0.
C29_StatedExamples ==
    presult # NONE =>
        /\ ptext = Text125k => presult = 12500
        /\ ptext = Text12Virgula5Mil => presult = 12500
        /\ ptext = Text3Comentarios => presult = 3
        /\ ptext = TextMuitas => presult = 0

(***************************************************************************)
(* Properties of analyze_post_engagement: the order of the strategies and  *)
(* the Playwright step (SpecResolve).                                      *)
(***************************************************************************)
StrategiesTried == [i \in 1..Len(attempts) |-> attempts[i].strategy]

C32_NoPlaywrightWhenDisabled ==
    \A i \in 1..Len(attempts) :
        attempts[i].strategy = "playwright" => playwright_enabled

\* a resolution with automation disabled that ran its chain and fell back
\* to the estimate, past the place of the Playwright step
C32_Witness ==
    /\ ~playwright_enabled
    /\ rpc = "done"
    /\ rstatus = "ESTIMATED"
    /\ resolve_platform = "facebook"
    /\ StrategiesTried = <<"hitube_marketing">>

(***************************************************************************)
(* Properties of find_viral_images: the cutoff and the size of the list    *)
(* (SpecPipeline).                                                         *)
(***************************************************************************)
\* C33: an item whose engagement_score is below min_engagement is still in
\* the list find_viral_images returns.
C33_BelowCutoffStillIncluded ==
    fpc = "returned" =>
        \A i \in DOMAIN ptask :
            Get(ptask[i].engagement, "engagement_score", 0) < min_engagement =>
                \E k \in DOMAIN viral_images :
                    /\ viral_images[k].post_url = search_results[i].page_url
                    /\ viral_images[k].engagement_score < min_engagement

\* a returned list with an item below the cutoff and an item that meets it
C33_Witness ==
    /\ fpc = "returned"
    /\ \E k \in DOMAIN viral_images : viral_images[k].engagement_score < min_engagement
    /\ \E k \in DOMAIN viral_images : viral_images[k].engagement_score >= min_engagement

\* C37: the returned list has at most max_images items, at most as many
\* items as the search returned, and no two items with the same post_url.
C37_BoundedAndDistinct ==
    fpc = "returned" =>
        /\ Len(viral_images) <= max_images
        /\ Len(viral_images) <= Len(search_results)
        /\ \A i, j \in DOMAIN viral_images :
             i # j => viral_images[i].post_url # viral_images[j].post_url

\* a search that returned more than max_images results, and a returned list
\* that is full
C37_Witness ==
    /\ fpc = "returned"
    /\ Len(search_results) > max_images
    /\ Len(viral_images) = max_images

(***************************************************************************)
(* Properties of the direct-extraction step of search_images (SpecDedup).  *)
(***************************************************************************)
\* C35: no result of the direct-extraction step is in the list search_images
\* returns: each of them has no page_url, or a page_url the final loop has
\* already seen or rejects.
C35_NoDirectResultReturned ==
    dpc = "done" =>
        \A k \in DOMAIN unique_results : unique_results[k].source # "direct"

\* the extractors have added a result without page_url and a result with the
\* page_url of a result that is returned
C35_Witness ==
    /\ dpc = "done"
    /\ \E i \in DOMAIN aggregated :
         /\ aggregated[i].source = "direct"
         /\ aggregated[i].page_url = ""
    /\ \E i \in DOMAIN aggregated :
         /\ aggregated[i].source = "direct"
         /\ \E k \in DOMAIN unique_results :
              unique_results[k].page_url = aggregated[i].page_url

(***************************************************************************)
(* Properties of the key registry: rotation, retry loops, categories.      *)
(***************************************************************************)
\* the slots k consecutive _get_next_api_key calls return, nothing else
\* touching the registry in between
RECURSIVE ConsecutiveCalls(_, _, _, _)
ConsecutiveCalls(service, failed, index, k) ==
    IF k = 0
    THEN <<>>
    ELSE LET r == GetNextApiKey(service, failed, index)
         IN <<r.slot>> \o ConsecutiveCalls(service, failed, r.index, k - 1)

\* C34: with no slot of a category blacklisted, n consecutive calls for the
\* category (n its number of keys) return every slot exactly once, in cyclic
\* order from the current rotation position.
C34_RoundRobin ==
    \A s \in Services :
        (api_keys[s] >= 1 /\ \A i \in Slots(s) : ~Blacklisted(s, i)) =>
            ConsecutiveCalls(s, failed_apis, current_api_index[s], api_keys[s])
                = [k \in 1..api_keys[s] |-> (current_api_index[s] + k - 1) % api_keys[s]]

\* a call has just returned a slot of a three-key category in which nothing
\* is blacklisted, and the rotation stands past slot 0
C34_Witness ==
    /\ lastRet.slot # NONE
    /\ api_keys[lastRet.svc] = 3
    /\ \A i \in Slots(lastRet.svc) : ~Blacklisted(lastRet.svc, i)
    /\ current_api_index[lastRet.svc] > 0

\* C36: a retry loop sends at most len(keys) calls per request (per search
\* type for Serper); it sends nothing more after a call that succeeded; and
\* every call it sends carries a key _get_next_api_key has just returned, so
\* the loop ends as soon as no key is available.
C36_RetryLoopsBounded ==
    [][\A t \in Tasks :
         /\ task[t]'.comp # "none" => task[t]'.calls <= api_keys[task[t]'.comp]
         /\ (task[t].pc = "inflight" /\ task[t]' # task[t] /\ lastFail'.by # t) =>
               task[t]'.pc # "inflight"
         /\ (task[t]' # task[t] /\ task[t]'.pc = "inflight") =>
               /\ lastRet'.svc = task[t]'.comp
               /\ lastRet'.slot # NONE
               /\ lastRet'.slot = task[t]'.used]_vars

\* a request whose loop ended on a failed call because no key was left, with
\* passes of the loop still to go
C36_Witness ==
    \E t \in Tasks :
        /\ lastFail.by = t
        /\ lastRet.svc = lastFail.svc
        /\ lastRet.slot = NONE
        /\ task[t].pc # "inflight"
        /\ api_keys[lastFail.svc] = 3
        /\ \E u \in Tasks : task[u].pc = "inflight" /\ task[u].comp = lastFail.svc

\* the slots of a category that a blacklist holds
FailedSlots(failed, service) ==
    { i \in 0..(MaxKeys(service) - 1) : <<service, i>> \in failed }

\* C38: a _get_next_api_key call and a failure report for one category leave
\* the rotation position, the blacklisted slots and the next slot returned
\* of every other category as they were.
C38_CategoriesIndependent ==
    [][\A a \in Services :
         (lastRet'.svc = a \/ lastFail'.svc = a) =>
             \A b \in Services \ {a} :
                 /\ current_api_index'[b] = current_api_index[b]
                 /\ FailedSlots(failed_apis', b) = FailedSlots(failed_apis, b)
                 /\ GetNextApiKey(b, failed_apis', current_api_index'[b])
                      = GetNextApiKey(b, failed_apis, current_api_index[b])]_vars

\* a failure of a rapidapi call has just been handled while the serper
\* rotation stood at slot 1 and a serper slot was blacklisted
C38_Witness ==
    /\ lastFail.svc = "rapidapi"
    /\ Blacklisted("rapidapi", 0)
    /\ current_api_index["serper"] = 1
    /\ \E i \in Slots("serper") : Blacklisted("serper", i)
    /\ \E i \in Slots("serper") : ~Blacklisted("serper", i)

\* C39: for every category with at least one key the rotation position is a
\* slot of the category, and every identifier in failed_apis names a
\* configured slot.
C39_IndexAndBlacklistInRange ==
    /\ \A s \in Services : api_keys[s] >= 1 => current_api_index[s] \in Slots(s)
    /\ \A id \in failed_apis : id[1] \in Services /\ id[2] \in Slots(id[1])

\* the rotation stands at the last slot, and the failure just handled was
\* found from position 0, one step back round the end of the list
C39_Witness ==
    /\ lastFail.svc # "none"
    /\ lastFail.marked = api_keys[lastFail.svc] - 1
    /\ api_keys[lastFail.svc] = 3
    /\ current_api_index[lastFail.svc] = api_keys[lastFail.svc] - 1

\* C40: a _get_next_api_key call that finds every slot of its category
\* blacklisted returns None and leaves the registry as it found it: the
\* rotation position is back where the scan began, and failed_apis holds
\* what it held when the call was made.
C40_EmptyCallChangesNothing ==
    [][(/\ lastRet'.svc # "none"
        /\ \A i \in Slots(lastRet'.svc) : <<lastRet'.svc, i>> \in failed_apis') =>
          /\ lastRet'.slot = NONE
          /\ lastRet'.start = current_api_index[lastRet'.svc]
          /\ current_api_index' = current_api_index
          /\ failed_apis' = IF lastFail' = NoFail
                            THEN failed_apis
                            ELSE failed_apis \cup {<<lastFail'.svc, lastFail'.marked>>}]_vars

\* a call that came back empty after a scan that began past slot 0
C40_Witness ==
    /\ lastRet.svc # "none"
    /\ lastRet.slot = NONE
    /\ api_keys[lastRet.svc] >= 2
    /\ AllBlacklisted(lastRet.svc)
    /\ lastRet.start >= 1
    /\ current_api_index[lastRet.svc] = lastRet.start
====
